---- MODULE Spec2Model ----
(***************************************************************************)
(* A model of the s3x gateway's ledger and object engine.                  *)
(*                                                                         *)
(*  - LedgerStore (src/unnamed/part_000): the single-record bookkeeper     *)
(*    persisted under ledgerKey and guarded by one RWMutex.                *)
(*  - ledgerStore / xObjects (src/cmd/gateway/s3x/gateway-s3x-object.go):  *)
(*    the per-bucket-locked engine over a content-addressed DAG store.     *)
(*                                                                         *)
(* Strings (bucket names, object names, payloads) are sequences of small   *)
(* naturals, so that prefix tests, comparisons and slices are computed.    *)
(***************************************************************************)
EXTENDS Integers, Sequences, FiniteSets, TLC

VARIABLES
    ledgerBytes,  \* LedgerStore.ds[ledgerKey]: the marshalled Ledger
    call,         \* the last LedgerStore call and what it returned
    live,         \* history: names whose NewBucket succeeded, not deleted since
    isTest,       \* the package flag isTest
    dag,          \* the raw data blocks held by the remote node
    ds,           \* ledgerStore.ds: bucket name -> CID of its bucket record
    cache,        \* ledgerStore's loaded buckets: bucket name -> bucket record
    wlock,        \* locker: bucket name -> the thread holding its write lock, or 0
    rlock,        \* locker: bucket name -> the threads holding its read lock
    pc,           \* where each request thread is
    arg,          \* the arguments of each thread's current (or last) call
    loaded,       \* the bucket record a thread's putObject works on
    ret,          \* the call that returned last: its name, error and value
    written,      \* history: <<bucket, object>> -> payload of the last committed write
    steps,        \* history: how many calls have been started
    MultipartUploads, \* ledgerStore.l.MultipartUploads: id -> upload (a Go map, nil at first)
    uploads,      \* history: id -> what was asked of the upload with that id
    seen,         \* crdtDAGSyncer.ds: the CIDs whose key is stored (HasBlock)
    dagCall,      \* the last crdtDAGSyncer call, the server's answer and the result
    getMany,      \* the goroutine of GetMany: its slice, position and the Gets it made
    out,          \* the channel GetMany returned
    received,     \* what the caller of GetMany has read from the channel
    mu,           \* LedgerStore's RWMutex: the threads holding it for writing
    setter,       \* each thread's LedgerStore setter call: arguments, position, copy
    ledger0       \* history: the ledger the store held when it was opened

mvars == <<MultipartUploads, uploads>>
gvars == <<getMany, out, received>>
svars == <<seen, dagCall, gvars>>
cvars == <<mu, setter, ledger0>>
lvars == <<ledgerBytes, call, live, mvars, svars, cvars>>
evars == <<isTest, dag, ds, cache, wlock, rlock, pc, arg, loaded, ret, written, steps>>
vars == <<lvars, evars>>

-----------------------------------------------------------------------------
(* Go strings and maps *)

\* the empty Go string
EmptyString == << >>

\* the empty map / a map with no entries
EmptyMap == << >>

\* m[k] = v
MapPut(m, k, v) == [x \in (DOMAIN m) \cup {k} |-> IF x = k THEN v ELSE m[x]]

\* delete(m, k)
MapDelete(m, k) == [x \in (DOMAIN m) \ {k} |-> m[x]]

\* m[k], the zero value when the key is absent
MapGet(m, k, zero) == IF k \in DOMAIN m THEN m[k] ELSE zero

\* strings.HasPrefix(s, prefix)
HasPrefix(s, prefix) ==
    /\ Len(prefix) <= Len(s)
    /\ \A i \in 1..Len(prefix) : s[i] = prefix[i]

\* strings.Compare(a, b): -1, 0 or +1 in lexicographic byte order
RECURSIVE Compare(_, _)
Compare(a, b) ==
    IF a = << >> /\ b = << >> THEN 0
    ELSE IF a = << >> THEN -1
    ELSE IF b = << >> THEN 1
    ELSE IF Head(a) < Head(b) THEN -1
    ELSE IF Head(a) > Head(b) THEN 1
    ELSE Compare(Tail(a), Tail(b))

-----------------------------------------------------------------------------
(* LedgerStore (src/unnamed/part_000) *)

\* how many bucket names the LedgerStore runs draw from
NumLedgerBuckets == 2

\* non-empty names: S3 never routes an empty bucket or object name
LedgerBucketNames == {<<c>> : c \in 1..NumLedgerBuckets}
LedgerObjectNames == {<<1>>, <<1, 2>>}
Hashes == {"h1", "h2"}

ErrLedgerBucketExists == "ErrLedgerBucketExists"
ErrLedgerBucketDoesNotExist == "ErrLedgerBucketDoesNotExist"
ErrLedgerObjectDoesNotExist == "ErrLedgerObjectDoesNotExist"
ErrInvalidUploadID == "ErrInvalidUploadID"
nil == "nil"

BucketNotFound == "BucketNotFound"
ObjectNotFound == "ObjectNotFound"

\* toMinioErr: ledger errors become the minio error types, others pass through
toMinioErr(err) ==
    IF err = ErrLedgerBucketDoesNotExist THEN BucketNotFound
    ELSE IF err = ErrLedgerObjectDoesNotExist THEN ObjectNotFound
    ELSE err

\* a Go map field of a decoded message: nil or allocated, with its entries
GoMap(isNil, kv) == [isNil |-> isNil, kv |-> kv]
NilGoMap == GoMap(TRUE, EmptyMap)

\* the zero LedgerObjectEntry and LedgerBucketEntry (what a missing key reads as)
ZeroObjectEntry == [Name |-> EmptyString, IpfsHash |-> ""]
ZeroBucketEntry == [Name |-> EmptyString, IpfsHash |-> "", Objects |-> NilGoMap]

\* Ledger.Marshal: map fields are written entry by entry, so a nil map and an
\* allocated empty map have the same encoding
Marshal(l) ==
    [b \in DOMAIN l.Buckets.kv |->
        [Name |-> l.Buckets.kv[b].Name,
         IpfsHash |-> l.Buckets.kv[b].IpfsHash,
         Objects |-> l.Buckets.kv[b].Objects.kv]]

\* Ledger.Unmarshal: a map field with no entries decodes to nil
Unmarshal(bytes) ==
    [Buckets |->
        GoMap(DOMAIN bytes = {},
              [b \in DOMAIN bytes |->
                  [Name |-> bytes[b].Name,
                   IpfsHash |-> bytes[b].IpfsHash,
                   Objects |-> GoMap(DOMAIN bytes[b].Objects = {},
                                     bytes[b].Objects)]])]

\* getLedger: a fresh Ledger decoded from the datastore
getLedger == Unmarshal(ledgerBytes)

\* ledger.GetBuckets()[name]
GetBuckets(l, name) == MapGet(l.Buckets.kv, name, ZeroBucketEntry)

\* bucketExists
bucketExists(l, name) == GetBuckets(l, name).Name # EmptyString

\* objectExists
objectExists(l, bucket, object) ==
    IF GetBuckets(l, bucket).Name = EmptyString
    THEN ErrLedgerBucketDoesNotExist
    ELSE IF MapGet(GetBuckets(l, bucket).Objects.kv, object, ZeroObjectEntry).Name
            = EmptyString
    THEN ErrLedgerObjectDoesNotExist
    ELSE nil

Call(op, bucket, object, hash, err) ==
    [op |-> op, bucket |-> bucket, object |-> object, hash |-> hash, ret |-> err,
     objects |-> << >>, errs |-> << >>]

\* the ledger NewBucket builds before putLedger
NewBucketOmitsNameLedger(l, name, hash) ==
    [Buckets |-> GoMap(FALSE,
        MapPut(l.Buckets.kv, name,
               [Name |-> EmptyString, IpfsHash |-> hash,
                Objects |-> GoMap(FALSE, EmptyMap)]))]
NewBucketLedger(l, name, hash) ==
    [Buckets |-> GoMap(FALSE,
        MapPut(l.Buckets.kv, name,
               [Name |-> name, IpfsHash |-> hash,
                Objects |-> GoMap(FALSE, EmptyMap)]))]

\* the guard of NewBucket: the name is already taken
NewBucketNoCheck(l, name) == FALSE
NewBucketRejects(l, name) == bucketExists(l, name)

NewBucket(name, hash) ==
    /\ UNCHANGED <<evars, mvars, svars, cvars>>
    /\ LET l == getLedger IN
       IF NewBucketRejects(l, name)
       THEN /\ call' = Call("NewBucket", name, EmptyString, hash, ErrLedgerBucketExists)
            /\ UNCHANGED <<ledgerBytes, live>>
       ELSE /\ ledgerBytes' = Marshal(NewBucketLedger(l, name, hash))
            /\ call' = Call("NewBucket", name, EmptyString, hash, nil)
            /\ live' = live \cup {name}

\* the ledger UpdateBucketHash builds before putLedger (the bucket exists)
UpdateBucketHashNewEntry(l, name, hash) ==
    [Buckets |-> GoMap(FALSE,
        MapPut(l.Buckets.kv, name,
               [Name |-> name, IpfsHash |-> hash, Objects |-> GoMap(FALSE, EmptyMap)]))]
UpdateBucketHashLedger(l, name, hash) ==
    LET entry == [l.Buckets.kv[name] EXCEPT !.IpfsHash = hash]
    IN [Buckets |-> GoMap(FALSE, MapPut(l.Buckets.kv, name, entry))]

UpdateBucketHash(name, hash) ==
    /\ UNCHANGED <<evars, mvars, svars, cvars>>
    /\ LET l == getLedger IN
       IF ~bucketExists(l, name)
       THEN /\ call' = Call("UpdateBucketHash", name, EmptyString, hash,
                            ErrLedgerBucketDoesNotExist)
            /\ UNCHANGED <<ledgerBytes, live>>
       ELSE /\ ledgerBytes' = Marshal(UpdateBucketHashLedger(l, name, hash))
            /\ call' = Call("UpdateBucketHash", name, EmptyString, hash, nil)
            /\ UNCHANGED live

\* RemoveObject deletes the entry from the decoded copy and returns nil; it
\* never calls putLedger, so the datastore keeps the ledger it had
RemoveObject(bucketName, objectName) ==
    /\ UNCHANGED <<evars, mvars, svars, cvars>>
    /\ LET l == getLedger
           err == objectExists(l, bucketName, objectName)
       IN  IF err # nil
           THEN /\ call' = Call("RemoveObject", bucketName, objectName, "", err)
                /\ UNCHANGED <<ledgerBytes, live>>
           ELSE /\ call' = Call("RemoveObject", bucketName, objectName, "", nil)
                /\ UNCHANGED <<ledgerBytes, live>>

\* the ledger AddObjectToBucket builds before putLedger (the bucket exists)
AddObjectToBucketLedger(l, bucketName, objectName, objectHash) ==
    LET bucket == l.Buckets.kv[bucketName]
        \* prevent nil map panic
        objects == IF bucket.Objects.isNil THEN EmptyMap ELSE bucket.Objects.kv
        entry == [bucket EXCEPT !.Objects =
                     GoMap(FALSE, MapPut(objects, objectName,
                           [Name |-> objectName, IpfsHash |-> objectHash]))]
    IN [Buckets |-> GoMap(FALSE, MapPut(l.Buckets.kv, bucketName, entry))]

AddObjectToBucket(bucketName, objectName, objectHash) ==
    /\ UNCHANGED <<evars, mvars, svars, cvars>>
    /\ LET l == getLedger IN
       IF ~bucketExists(l, bucketName)
       THEN /\ call' = Call("AddObjectToBucket", bucketName, objectName, objectHash,
                            ErrLedgerBucketDoesNotExist)
            /\ UNCHANGED <<ledgerBytes, live>>
       ELSE /\ ledgerBytes' =
                  Marshal(AddObjectToBucketLedger(l, bucketName, objectName, objectHash))
            /\ call' = Call("AddObjectToBucket", bucketName, objectName, objectHash, nil)
            /\ UNCHANGED live

\* the ledger DeleteBucket builds before putLedger
DeleteBucketLedger(l, name) ==
    [Buckets |-> GoMap(l.Buckets.isNil, MapDelete(l.Buckets.kv, name))]

DeleteBucket(name) ==
    /\ UNCHANGED <<evars, mvars, svars, cvars>>
    /\ LET l == getLedger IN
       IF GetBuckets(l, name).Name = EmptyString
       THEN /\ call' = Call("DeleteBucket", name, EmptyString, "",
                            ErrLedgerBucketDoesNotExist)
            /\ UNCHANGED <<ledgerBytes, live>>
       ELSE /\ ledgerBytes' = Marshal(DeleteBucketLedger(l, name))
            /\ call' = Call("DeleteBucket", name, EmptyString, "", nil)
            /\ live' = live \ {name}
   
\* the batches of names a DeleteObjects request carries
MaxBatch == 2
Batches == UNION {[1..n -> LedgerObjectNames] : n \in 1..MaxBatch}

\* xObjects.DeleteObjects over LedgerStore: one RemoveObject per name, in
\* order; errs[i] is the converted result of the i-th, the overall error is
\* nil.  RemoveObject leaves the stored ledger as it found it, so every
\* RemoveObject of the loop decodes the same ledger.
DeleteObjects(bucket, objects) ==
    /\ UNCHANGED <<evars, mvars, svars, cvars>>
    /\ LET errs == [i \in 1..Len(objects) |->
                       toMinioErr(objectExists(getLedger, bucket, objects[i]))]
       IN call' = [Call("DeleteObjects", bucket, EmptyString, "", nil)
                      EXCEPT !.objects = objects, !.errs = errs]
    /\ UNCHANGED <<ledgerBytes, live>>

(* getters: each decodes the ledger under the read lock and answers from it *)

BucketExists(name) == bucketExists(getLedger, name)

ObjectExists(bucketName, objectName) == objectExists(getLedger, bucketName, objectName)

\* GetBucketHash: <<hash, err>>
GetBucketHash(name) ==
    IF GetBuckets(getLedger, name).Name = EmptyString
    THEN <<"", ErrLedgerBucketDoesNotExist>>
    ELSE <<getLedger.Buckets.kv[name].IpfsHash, nil>>

\* GetObjectHash: <<hash, err>>
LedgerGetObjectHash(bucketName, objectName) ==
    LET bucket == GetBuckets(getLedger, bucketName) IN
    IF bucket.Name = EmptyString THEN <<"", ErrLedgerBucketDoesNotExist>>
    ELSE IF MapGet(bucket.Objects.kv, objectName, ZeroObjectEntry).Name = EmptyString
    THEN <<"", ErrLedgerObjectDoesNotExist>>
    ELSE <<bucket.Objects.kv[objectName].IpfsHash, nil>>

\* GetObjectHashes: <<map from object name to hash, err>>
LedgerGetObjectHashes(bucket) ==
    IF ~bucketExists(getLedger, bucket)
    THEN <<EmptyMap, ErrLedgerBucketDoesNotExist>>
    ELSE LET objs == getLedger.Buckets.kv[bucket].Objects.kv
             names == {objs[k].Name : k \in DOMAIN objs}
         IN <<[n \in names |->
                 objs[CHOOSE k \in DOMAIN objs : objs[k].Name = n].IpfsHash], nil>>

\* all orders in which a range over the map can visit the keys in S
Orders(S) ==
    {s \in [1..Cardinality(S) -> S] : \A i, j \in 1..Cardinality(S) : i # j => s[i] # s[j]}

\* GetBucketNames: the slices it can return (Go ranges over a map in any order)
LedgerGetBucketNames ==
    LET buckets == getLedger.Buckets.kv IN
    {[i \in 1..Len(o) |-> buckets[o[i]].Name] : o \in Orders(DOMAIN buckets)}

(* the setters as concurrent callers run them: le.Lock(), getLedger, the
   change of the decoded copy, putLedger, and le.Unlock() at the return *)

\* the request threads
Threads == {1, 2}

\* a setter call: its arguments, where it is, the ledger it decoded, its
\* error, and whether another call was under way when it was made
SetterCallOf(op, bucketName, objectName, hash) ==
    [pc |-> "idle", op |-> op, bucket |-> bucketName, object |-> objectName,
     hash |-> hash, ledger |-> [Buckets |-> NilGoMap], ret |-> nil,
     concurrent |-> FALSE]
NoSetter == SetterCallOf("", EmptyString, EmptyString, "")
SetterCalls ==
    {SetterCallOf(op, b, EmptyString, h) :
        op \in {"NewBucket", "UpdateBucketHash"}, b \in LedgerBucketNames, h \in Hashes}
    \cup {SetterCallOf("RemoveObject", b, o, "") :
             b \in LedgerBucketNames, o \in LedgerObjectNames}
    \cup {SetterCallOf("AddObjectToBucket", b, o, h) :
             b \in LedgerBucketNames, o \in LedgerObjectNames, h \in Hashes}
    \cup {SetterCallOf("DeleteBucket", b, EmptyString, "") : b \in LedgerBucketNames}

\* what the setter c does with the ledger l it decoded: whether it calls
\* putLedger, with which ledger, and the error it returns
SetterResult(l, c) ==
    LET failed(err) == [put |-> FALSE, ledger |-> l, err |-> err]
        stored(l2) == [put |-> TRUE, ledger |-> l2, err |-> nil]
    IN  IF c.op = "NewBucket"
        THEN IF NewBucketRejects(l, c.bucket) THEN failed(ErrLedgerBucketExists)
             ELSE stored(NewBucketLedger(l, c.bucket, c.hash))
        ELSE IF c.op = "UpdateBucketHash"
        THEN IF ~bucketExists(l, c.bucket) THEN failed(ErrLedgerBucketDoesNotExist)
             ELSE stored(UpdateBucketHashLedger(l, c.bucket, c.hash))
        ELSE IF c.op = "RemoveObject"
        THEN failed(objectExists(l, c.bucket, c.object))
        ELSE IF c.op = "AddObjectToBucket"
        THEN IF ~bucketExists(l, c.bucket) THEN failed(ErrLedgerBucketDoesNotExist)
             ELSE stored(AddObjectToBucketLedger(l, c.bucket, c.object, c.hash))
        ELSE IF GetBuckets(l, c.bucket).Name = EmptyString
        THEN failed(ErrLedgerBucketDoesNotExist)
        ELSE stored(DeleteBucketLedger(l, c.bucket))

\* le.Lock() returns when no thread holds the mutex
LockAlwaysFree(m) == TRUE
LockFree(m) == m = {}

MutexInit ==
    /\ mu = {}
    /\ setter = [t \in Threads |-> NoSetter]
    /\ ledger0 = ledgerBytes

\* a thread calls a setter
SetterCall(t) ==
    /\ setter[t].pc = "idle"
    /\ \E c \in SetterCalls :
          setter' = [setter EXCEPT ![t] =
                       [c EXCEPT !.pc = "lock",
                                 !.concurrent = \E u \in Threads \ {t} :
                                     setter[u].pc \in {"lock", "get", "put", "unlock"}]]
    /\ UNCHANGED <<ledgerBytes, call, live, mvars, svars, evars, mu, ledger0>>

\* le.Lock()
SetterLock(t) ==
    /\ setter[t].pc = "lock"
    /\ LockFree(mu)
    /\ mu' = mu \cup {t}
    /\ setter' = [setter EXCEPT ![t].pc = "get"]
    /\ UNCHANGED <<ledgerBytes, call, live, mvars, svars, evars, ledger0>>

\* ledger, err := le.getLedger()
SetterGet(t) ==
    /\ setter[t].pc = "get"
    /\ setter' = [setter EXCEPT ![t].pc = "put", ![t].ledger = getLedger]
    /\ UNCHANGED <<ledgerBytes, call, live, mvars, svars, evars, mu, ledger0>>

\* the checks, the change of the copy and putLedger
SetterPut(t) ==
    /\ setter[t].pc = "put"
    /\ LET r == SetterResult(setter[t].ledger, setter[t]) IN
         /\ ledgerBytes' = IF r.put THEN Marshal(r.ledger) ELSE ledgerBytes
         /\ setter' = [setter EXCEPT ![t].pc = "unlock", ![t].ret = r.err]
         /\ live' = IF r.err # nil THEN live
                    ELSE IF setter[t].op = "NewBucket" THEN live \cup {setter[t].bucket}
                    ELSE IF setter[t].op = "DeleteBucket" THEN live \ {setter[t].bucket}
                    ELSE live
    /\ UNCHANGED <<call, mvars, svars, evars, mu, ledger0>>

\* the deferred le.Unlock() and the return
SetterUnlock(t) ==
    /\ setter[t].pc = "unlock"
    /\ mu' = mu \ {t}
    /\ setter' = [setter EXCEPT ![t].pc = "done"]
    /\ UNCHANGED <<ledgerBytes, call, live, mvars, svars, evars, ledger0>>

\* the ledgers a store can hold when it is opened
StoredLedgers ==
    LET none == [Buckets |-> NilGoMap]
        one == NewBucketLedger(none, <<1>>, "h1")
    IN {none, one, AddObjectToBucketLedger(one, <<1>>, <<1>>, "h1")}

\* createLedgerIfNotExist: a new store holds the marshalled empty Ledger
LedgerInit ==
    /\ ledgerBytes = Marshal([Buckets |-> NilGoMap])
    /\ call = Call("newLedgerStore", EmptyString, EmptyString, "", nil)
    /\ live = {}
    /\ MutexInit

LedgerNext ==
    \/ \E name \in LedgerBucketNames, hash \in Hashes : NewBucket(name, hash)
    \/ \E name \in LedgerBucketNames, hash \in Hashes : UpdateBucketHash(name, hash)
    \/ \E b \in LedgerBucketNames, o \in LedgerObjectNames : RemoveObject(b, o)
    \/ \E b \in LedgerBucketNames, o \in LedgerObjectNames, h \in Hashes :
          AddObjectToBucket(b, o, h)
    \/ \E name \in LedgerBucketNames : DeleteBucket(name)

(* The engine: ledgerStore and xObjects (gateway-s3x-object.go) *)

\* the calls made in one run
MaxSteps == 3

BucketNames == {<<1>>, <<2>>}
ObjectNames == {<<1>>, <<1, 2>>}
Payloads == {<<7>>, <<8, 9>>}
\* what time.Now() can return; the zero time.Time is 0
Times == {1}

ErrReadAll == "ErrReadAll"
ErrDAGUnavailable == "ErrDAGUnavailable"
ErrNotFound == "ErrNotFound"
InvalidRange == "InvalidRange"
(* Blocks and CIDs: a CID names exactly one block content.  A record block is
   saved by the call that computes its CID (ipfsSave), so every record CID the
   ledger holds is retrievable; raw data blocks are saved by xObjects before
   the ledger is touched and are tracked in dag. *)
RawBlock(bytes) == <<"raw", bytes>>
ObjectBlock(obj) == <<"object", obj>>
BucketBlock(b) == <<"bucket", b>>
Cid(block) == <<"cid", block>>
BlockOf(cid) == cid[2]
NoCid == <<"cid", <<"none">>>>

\* ObjectInfo and Object (the protobuf messages)
ObjectInfoOf(bucket, name, size, modTime) ==
    [Bucket |-> bucket, Name |-> name, Size |-> size, ModTime |-> modTime]
ZeroObjectInfo == ObjectInfoOf(EmptyString, EmptyString, 0, 0)
ObjectOf(info, dataHash) == [ObjectInfo |-> info, DataHash |-> dataHash]
ZeroObject == ObjectOf(ZeroObjectInfo, NoCid)

\* the bucket record
BucketOf(name, created, objects) ==
    [Name |-> name, Created |-> created, Location |-> "us-east-1", Objects |-> objects]
ZeroBucket == BucketOf(EmptyString, 0, EmptyMap)

\* a result: the error and the value returned with it
Result(err, val) == [err |-> err, val |-> val]

\* a returned call
Returned(op, err, val) == [op |-> op, err |-> err, val |-> val]

\* ledgerStore.getBucketLoaded: the cached record, else the record the
\* datastore's CID names, loaded from the DAG store
getBucketLoaded(bucket) ==
    IF bucket \in DOMAIN cache THEN Result(nil, cache[bucket])
    ELSE IF bucket \notin DOMAIN ds THEN Result(ErrLedgerBucketDoesNotExist, ZeroBucket)
    ELSE Result(nil, BlockOf(ds[bucket])[2])

\* the cache after getBucketLoaded(bucket)
cacheLoaded(bucket) ==
    IF getBucketLoaded(bucket).err = nil
    THEN MapPut(cache, bucket, getBucketLoaded(bucket).val)
    ELSE cache

\* ledgerStore.assertBucketExits
assertBucketExits(bucket) ==
    IF bucket \in DOMAIN ds THEN nil ELSE ErrLedgerBucketDoesNotExist

\* ledgerStore.object: the object record a bucket's entry names
object(bucket, name) ==
    LET b == getBucketLoaded(bucket) IN
    IF b.err # nil THEN Result(b.err, ZeroObject)
    ELSE IF name \notin DOMAIN b.val.Objects
    THEN Result(ErrLedgerObjectDoesNotExist, ZeroObject)
    ELSE Result(nil, BlockOf(b.val.Objects[name])[2])

\* ledgerStore.ObjectInfo
ObjectInfo(bucket, name) ==
    LET o == object(bucket, name) IN Result(o.err, o.val.ObjectInfo)

\* ledgerStore.ObjectData: the bytes the object's DataHash names
ObjectData(bucket, name) ==
    LET o == object(bucket, name) IN
    IF o.err # nil THEN Result(o.err, << >>)
    ELSE IF BlockOf(o.val.DataHash) \notin dag THEN Result(ErrNotFound, << >>)
    ELSE Result(nil, BlockOf(o.val.DataHash)[2])

\* the call crashed: a write to a nil map, a nil pointer dereference or a
\* slice expression out of range
Panic == "panic"

\* int64, at a width of IntBits bits: the values, and the wrap-around of a sum
IntBits == 4
MinInt64 == -(2 ^ (IntBits - 1))
MaxInt64 == 2 ^ (IntBits - 1) - 1
Int64 == MinInt64..MaxInt64
WrapInt64(x) == ((x - MinInt64) % (2 ^ IntBits)) + MinInt64

\* objData[startOffset:end]
Slice(objData, startOffset, end) == SubSeq(objData, startOffset + 1, end)

\* objData[startOffset:end] is in range (end is at most len(objData) here)
SliceInRange(objData, startOffset, end) ==
    0 <= startOffset /\ startOffset <= end /\ end <= Len(objData)

\* xObjects.GetObject after ObjectData: the range check and what is written
GetObjectRangeOffByOne(objData, startOffset, length) ==
    LET end == WrapInt64(startOffset + length) IN
    IF Len(objData) < end THEN Result(InvalidRange, << >>)
    ELSE IF ~SliceInRange(objData, startOffset, end) THEN Result(Panic, << >>)
    ELSE Result(nil, Slice(objData, startOffset + 1, end))
GetObjectRange(objData, startOffset, length) ==
    LET end == WrapInt64(startOffset + length) IN
    IF Len(objData) < end THEN Result(InvalidRange, << >>)
    ELSE IF ~SliceInRange(objData, startOffset, end) THEN Result(Panic, << >>)
    ELSE Result(nil, Slice(objData, startOffset, end))

\* xObjects.GetObject: the error returned and the bytes written to the writer
GetObjectResult(bucket, name, startOffset, length) ==
    LET od == ObjectData(bucket, name) IN
    IF od.err # nil THEN Result(toMinioErr(od.err), << >>)
    ELSE GetObjectRange(od.val, startOffset, length)

\* xObjects.GetObjectInfo
GetObjectInfoResult(bucket, name) ==
    LET oi == ObjectInfo(bucket, name) IN Result(toMinioErr(oi.err), oi.val)

\* xObjects.GetObjectNInfo with a nil range spec: GetOffsetLength gives
\* offset 0 and the length GetObjectInfo reports
GetObjectNInfoResult(bucket, name) ==
    LET oi == GetObjectInfoResult(bucket, name) IN
    IF oi.err # nil THEN Result(oi.err, << >>)
    ELSE GetObjectResult(bucket, name, 0, oi.val.Size)

\* newObjectInfo: the modification time is left zero when isTest is set
newObjectInfo(bucket, name, size, now) ==
    ObjectInfoOf(bucket, name, size, IF ~isTest THEN now ELSE 0)

\* the Object xObjects.PutObject hands to ledgerStore.PutObject
PutObjectRecord(bucket, name, data, dataHash, now) ==
    ObjectOf(newObjectInfo(bucket, name, Len(data), now), dataHash)

\* sort.Strings: the names of the set in ascending order
RECURSIVE SortStrings(_)
SortStrings(names) ==
    IF names = {} THEN << >>
    ELSE LET first == CHOOSE n \in names : \A m \in names : Compare(n, m) <= 0
         IN <<first>> \o SortStrings(names \ {first})

\* ledgerStore.GetObjectInfos: the names selected from the bucket's object
\* map, sorted, and cut to max names when max is positive
GetObjectInfosNames(objs, prefix, startsFrom, max) ==
    LET names == SortStrings({name \in DOMAIN objs :
                                 HasPrefix(name, prefix) /\ Compare(startsFrom, name) >= 0})
    IN IF max > 0 /\ Len(names) > max THEN SubSeq(names, 1, max) ELSE names

\* ledgerStore.GetObjectInfos: the ObjectInfo of each selected name
GetObjectInfosResult(bucket, prefix, startsFrom, max) ==
    LET b == getBucketLoaded(bucket) IN
    IF b.err # nil THEN Result(b.err, << >>)
    ELSE LET names == GetObjectInfosNames(b.val.Objects, prefix, startsFrom, max)
             failed == {i \in 1..Len(names) : object(bucket, names[i]).err # nil}
         IN IF failed # {}
            THEN Result(object(bucket, names[CHOOSE i \in failed :
                                                 \A j \in failed : i <= j]).err, << >>)
            ELSE Result(nil, [i \in 1..Len(names) |->
                                 object(bucket, names[i]).val.ObjectInfo])

-----------------------------------------------------------------------------
(* request threads *)

NoArg ==
    [op |-> "", bucket |-> EmptyString, object |-> EmptyString, data |-> << >>,
     obj |-> ZeroObject, srcBucket |-> EmptyString, srcObject |-> EmptyString,
     now |-> 0, err |-> nil,
     prefix |-> EmptyString, startsFrom |-> EmptyString, max |-> 0,
     names |-> << >>, list |-> << >>, snap |-> Result(nil, ZeroBucket),
     id |-> "", partNumber |-> 0]

\* history: what the last committed write of an object stored, and whether
\* that write replaced an earlier one
NotWritten == [has |-> FALSE, data |-> << >>, over |-> FALSE]
Written(data, before) ==
    [has |-> TRUE, data |-> data, over |-> before.has /\ before.data # data]

\* the call of thread t returns
Return(t, op, err, val) ==
    /\ ret' = Returned(op, err, val)
    /\ arg' = [arg EXCEPT ![t] = NoArg]
    /\ loaded' = [loaded EXCEPT ![t] = ZeroBucket]
    /\ pc' = [pc EXCEPT ![t] = "idle"]

\* locker.write(bucket) / locker.read(bucket) can be granted
CanWriteAlways(bucket) == TRUE
CanWrite(bucket) == wlock[bucket] = {} /\ rlock[bucket] = {}
CanRead(bucket) == wlock[bucket] = {}

\* the deferred unlock functions of thread t have run
Unlocked(lock, t) == [b \in BucketNames |-> lock[b] \ {t}]

\* ledgerStore.putObject: the bucket record with the entry of the saved object
putObjectBucket(b, name, obj) ==
    [b EXCEPT !.Objects = MapPut(b.Objects, name, Cid(ObjectBlock(obj)))]

\* ledgerStore.putObject on the loaded record b: save the object record, save
\* the new bucket record, put its CID in the datastore, replace the cache entry
putObject(b, bucket, name, obj) ==
    LET nb == putObjectBucket(b, name, obj) IN
    /\ ds' = MapPut(ds, bucket, Cid(BucketBlock(nb)))
    /\ cache' = MapPut(cache, bucket, nb)

\* xObjects.PutObject up to the call of ledgerStore.PutObject
PutObjectCall(t) ==
    /\ pc[t] = "idle"
    /\ steps < MaxSteps
    /\ steps' = steps + 1
    /\ \E bucket \in BucketNames, name \in ObjectNames, data \in Payloads,
          now \in Times, io \in {nil, ErrReadAll, ErrDAGUnavailable} :
          LET dataHash == Cid(RawBlock(data)) IN
          /\ CanRead(bucket)
          /\ IF assertBucketExits(bucket) # nil
             THEN /\ Return(t, "PutObject", toMinioErr(assertBucketExits(bucket)), << >>)
                  /\ UNCHANGED dag
             ELSE IF io # nil
             THEN /\ Return(t, "PutObject", io, << >>)
                  /\ UNCHANGED dag
             ELSE /\ dag' = dag \cup {RawBlock(data)}
                  /\ arg' = [arg EXCEPT ![t] =
                        [NoArg EXCEPT !.op = "PutObject", !.bucket = bucket,
                                      !.object = name, !.data = data,
                                      !.obj = PutObjectRecord(bucket, name, data,
                                                              dataHash, now)]]
                  /\ pc' = [pc EXCEPT ![t] = "put_lock"]
                  /\ UNCHANGED <<ret, loaded>>
    /\ UNCHANGED <<lvars, isTest, ds, cache, wlock, rlock, written>>

\* ledgerStore.PutObject: defer ls.locker.write(bucket)(), then putObject's
\* getBucketLoaded
PutObjectLock(t) ==
    /\ pc[t] = "put_lock"
    /\ CanWrite(arg[t].bucket)
    /\ LET b == getBucketLoaded(arg[t].bucket) IN
       IF b.err # nil
       THEN /\ Return(t, "PutObject", toMinioErr(b.err), << >>)
            /\ UNCHANGED <<cache, wlock>>
       ELSE /\ wlock' = [wlock EXCEPT ![arg[t].bucket] = {t}]
            /\ loaded' = [loaded EXCEPT ![t] = b.val]
            /\ cache' = cacheLoaded(arg[t].bucket)
            /\ pc' = [pc EXCEPT ![t] = "put_commit"]
            /\ UNCHANGED <<ret, arg>>
    /\ UNCHANGED <<lvars, isTest, dag, ds, rlock, written, steps>>

\* ledgerStore.putObject: the saves and the datastore put, then the deferred
\* unlock and the return of xObjects.PutObject
PutObjectCommit(t) ==
    /\ pc[t] = "put_commit"
    /\ \E io \in {nil, ErrDAGUnavailable} :
          IF io # nil
          THEN /\ Return(t, "PutObject", io, << >>)
               /\ UNCHANGED <<ds, cache, written>>
          ELSE /\ putObject(loaded[t], arg[t].bucket, arg[t].object, arg[t].obj)
               /\ written' = [written EXCEPT ![<<arg[t].bucket, arg[t].object>>] =
                                 Written(arg[t].data, @)]
               /\ Return(t, "PutObject", nil, << >>)
    /\ wlock' = Unlocked(wlock, t)
    /\ UNCHANGED <<lvars, isTest, dag, rlock, steps>>

\* xObjects.GetObjectNInfo without a range: GetObjectInfo, then GetObject of
\* the whole object
GetObject(t) ==
    /\ pc[t] = "idle"
    /\ steps < MaxSteps
    /\ steps' = steps + 1
    /\ \E bucket \in BucketNames, name \in ObjectNames :
          /\ CanRead(bucket)
          /\ LET r == GetObjectNInfoResult(bucket, name)
             IN Return(t, "GetObject", r.err, r.val)
          /\ cache' = cacheLoaded(bucket)
    /\ UNCHANGED <<lvars, isTest, dag, ds, wlock, rlock, written>>

\* a range read with its result: the bytes the writer received
RangeRead(bucket, name, startOffset, length, bytes) ==
    [bucket |-> bucket, name |-> name, startOffset |-> startOffset,
     length |-> length, bytes |-> bytes]

\* xObjects.GetObject with any startOffset and length; a read leaves the store
\* as it was, so a behaviour carries one range read
GetObjectRanged(t) ==
    /\ pc[t] = "idle"
    /\ steps = 0
    /\ steps' = steps + 1
    /\ \E bucket \in BucketNames, name \in ObjectNames,
          startOffset \in Int64, length \in Int64 :
          /\ CanRead(bucket)
          /\ LET r == GetObjectResult(bucket, name, startOffset, length)
             IN Return(t, "GetObject", r.err,
                       RangeRead(bucket, name, startOffset, length, r.val))
          /\ cache' = cacheLoaded(bucket)
    /\ UNCHANGED <<lvars, isTest, dag, ds, wlock, rlock, written>>

\* xObjects.DeleteObject: ledgerStore.RemoveObject takes the write lock, drops
\* the entry, saves the bucket record and puts its CID in the datastore
DeleteObject(t) ==
    /\ pc[t] = "idle"
    /\ steps < MaxSteps
    /\ steps' = steps + 1
    /\ \E bucket \in BucketNames, name \in ObjectNames :
          LET b == getBucketLoaded(bucket) IN
          /\ CanWrite(bucket)
          /\ IF b.err # nil
             THEN /\ Return(t, "DeleteObject", toMinioErr(b.err), << >>)
                  /\ UNCHANGED <<ds, cache, written>>
             ELSE IF name \notin DOMAIN b.val.Objects
             THEN /\ Return(t, "DeleteObject", toMinioErr(ErrLedgerObjectDoesNotExist), << >>)
                  /\ cache' = cacheLoaded(bucket)
                  /\ UNCHANGED <<ds, written>>
             ELSE LET nb == [b.val EXCEPT !.Objects = MapDelete(@, name)] IN
                  /\ ds' = MapPut(ds, bucket, Cid(BucketBlock(nb)))
                  /\ cache' = MapPut(cache, bucket, nb)
                  /\ written' = [written EXCEPT ![<<bucket, name>>] = NotWritten]
                  /\ Return(t, "DeleteObject", nil, << >>)
    /\ UNCHANGED <<lvars, isTest, dag, wlock, rlock>>

(* xObjects.CopyObject *)

Lock(kind, bucket) == [kind |-> kind, bucket |-> bucket]

\* lock ordering by bucket name: the locks CopyObject takes, in the order it
\* takes them (each defer calls locker.read / locker.write at once and defers
\* only the unlock function it returns)
CopyLocksSourceFirst(srcBucket, dstBucket) ==
    IF srcBucket = dstBucket THEN <<Lock("write", dstBucket)>>
    ELSE <<Lock("read", srcBucket), Lock("write", dstBucket)>>
CopyLocksAscending(srcBucket, dstBucket) ==
    IF srcBucket = dstBucket THEN <<Lock("write", dstBucket)>>
    ELSE IF Compare(srcBucket, dstBucket) < 0
    THEN <<Lock("read", srcBucket), Lock("write", dstBucket)>>
    ELSE <<Lock("write", dstBucket), Lock("read", srcBucket)>>
CopyLocksReadDestination(srcBucket, dstBucket) ==
    IF srcBucket = dstBucket THEN <<Lock("read", dstBucket)>>
    ELSE IF Compare(srcBucket, dstBucket) > 0
    THEN <<Lock("read", srcBucket), Lock("read", dstBucket)>>
    ELSE <<Lock("read", dstBucket), Lock("read", srcBucket)>>
CopyLocks(srcBucket, dstBucket) ==
    IF srcBucket = dstBucket THEN <<Lock("write", dstBucket)>>
    ELSE IF Compare(srcBucket, dstBucket) > 0
    THEN <<Lock("read", srcBucket), Lock("write", dstBucket)>>
    ELSE <<Lock("write", dstBucket), Lock("read", srcBucket)>>

\* locker.read / locker.write granted to t
Acquire(t, lock) ==
    IF lock.kind = "write"
    THEN /\ CanWrite(lock.bucket)
         /\ wlock' = [wlock EXCEPT ![lock.bucket] = {t}]
         /\ UNCHANGED rlock
    ELSE /\ CanRead(lock.bucket)
         /\ rlock' = [rlock EXCEPT ![lock.bucket] = @ \cup {t}]
         /\ UNCHANGED wlock

\* the copy of the source record with the destination's name, bucket and time
CopiedObjectKeepsNames(obj1, dstBucket, dstObject, now) ==
    [obj1 EXCEPT !.ObjectInfo.ModTime = now]
CopiedObject(obj1, dstBucket, dstObject, now) ==
    [obj1 EXCEPT !.ObjectInfo.Name = dstObject,
                 !.ObjectInfo.Bucket = dstBucket,
                 !.ObjectInfo.ModTime = now]

CopyObjectCall(t) ==
    /\ pc[t] = "idle"
    /\ steps < MaxSteps
    /\ steps' = steps + 1
    /\ \E srcBucket \in BucketNames, srcObject \in ObjectNames,
          dstBucket \in BucketNames, dstObject \in ObjectNames, now \in Times :
          arg' = [arg EXCEPT ![t] =
                    [NoArg EXCEPT !.op = "CopyObject",
                                  !.srcBucket = srcBucket, !.srcObject = srcObject,
                                  !.bucket = dstBucket, !.object = dstObject,
                                  !.now = now]]
    /\ pc' = [pc EXCEPT ![t] = "copy_lock1"]
    /\ UNCHANGED <<lvars, isTest, dag, ds, cache, wlock, rlock, loaded, ret, written>>

CopyObjectLock1(t) ==
    /\ pc[t] = "copy_lock1"
    /\ Acquire(t, CopyLocks(arg[t].srcBucket, arg[t].bucket)[1])
    /\ pc' = [pc EXCEPT ![t] =
                 IF Len(CopyLocks(arg[t].srcBucket, arg[t].bucket)) = 1
                 THEN "copy_body" ELSE "copy_lock2"]
    /\ UNCHANGED <<lvars, isTest, dag, ds, cache, arg, loaded, ret, written, steps>>

CopyObjectLock2(t) ==
    /\ pc[t] = "copy_lock2"
    /\ Acquire(t, CopyLocks(arg[t].srcBucket, arg[t].bucket)[2])
    /\ pc' = [pc EXCEPT ![t] = "copy_body"]
    /\ UNCHANGED <<lvars, isTest, dag, ds, cache, arg, loaded, ret, written, steps>>

\* the body of CopyObject under its locks, then the deferred unlocks
CopyObjectBody(t) ==
    /\ pc[t] = "copy_body"
    /\ LET srcBucket == arg[t].srcBucket
           srcObject == arg[t].srcObject
           dstBucket == arg[t].bucket
           dstObject == arg[t].object
           obj1 == object(srcBucket, srcObject)
           b == getBucketLoaded(dstBucket)
       IN IF assertBucketExits(dstBucket) # nil
          THEN /\ Return(t, "CopyObject", toMinioErr(assertBucketExits(dstBucket)), << >>)
               /\ UNCHANGED <<ds, cache, written>>
          ELSE IF obj1.err # nil
          THEN /\ Return(t, "CopyObject", toMinioErr(obj1.err), << >>)
               /\ cache' = cacheLoaded(srcBucket)
               /\ UNCHANGED <<ds, written>>
          ELSE \E io \in {nil, ErrDAGUnavailable} :
               IF io # nil
               THEN /\ Return(t, "CopyObject", io, << >>)
                    /\ cache' = cacheLoaded(srcBucket)
                    /\ UNCHANGED <<ds, written>>
               ELSE /\ putObject(b.val, dstBucket, dstObject,
                                 CopiedObject(obj1.val, dstBucket, dstObject, arg[t].now))
                    /\ written' = [written EXCEPT ![<<dstBucket, dstObject>>] =
                                      Written(written[<<srcBucket, srcObject>>].data, @)]
                    /\ Return(t, "CopyObject", nil, << >>)
    /\ wlock' = Unlocked(wlock, t)
    /\ rlock' = Unlocked(rlock, t)
    /\ UNCHANGED <<lvars, isTest, dag, steps>>

(* ledgerStore.GetObjectHashes and GetObjectHash *)

\* GetObjectHashes after getBucketLoaded failed: unlock() before the return
GetObjectHashesFailedKeeps(lock, t) == lock
GetObjectHashesFailed(lock, t) == Unlocked(lock, t)

\* what GetObjectHashes returns: the map, and whether an unlock function
HashesOf(objects, unlock) == [objects |-> objects, unlock |-> unlock]

\* a caller enters GetObjectHashes(bucket), either GetObjectHash(bucket, object)
\* or a caller that keeps the unlock function and calls it later
GetObjectHashesCall(t) ==
    /\ pc[t] = "idle"
    /\ steps < MaxSteps
    /\ steps' = steps + 1
    /\ \E op \in {"GetObjectHashes", "GetObjectHash"}, bucket \in BucketNames,
          name \in ObjectNames :
          arg' = [arg EXCEPT ![t] =
                     [NoArg EXCEPT !.op = op, !.bucket = bucket,
                                   !.object = IF op = "GetObjectHash" THEN name
                                              ELSE EmptyString]]
    /\ pc' = [pc EXCEPT ![t] = "hashes_lock"]
    /\ UNCHANGED <<lvars, isTest, dag, ds, cache, wlock, rlock, loaded, ret, written>>

\* unlock := ls.locker.read(bucket)
GetObjectHashesLock(t) ==
    /\ pc[t] = "hashes_lock"
    /\ Acquire(t, Lock("read", arg[t].bucket))
    /\ pc' = [pc EXCEPT ![t] = "hashes_load"]
    /\ UNCHANGED <<lvars, isTest, dag, ds, cache, arg, loaded, ret, written, steps>>

\* getBucketLoaded and the return of GetObjectHashes: on an error the lock is
\* released and no unlock function is returned (GetObjectHash passes the error
\* on); on success the map and the unlock function are returned
GetObjectHashesLoad(t) ==
    /\ pc[t] = "hashes_load"
    /\ LET b == getBucketLoaded(arg[t].bucket) IN
       IF b.err # nil
       THEN /\ rlock' = GetObjectHashesFailed(rlock, t)
            /\ Return(t, arg[t].op, b.err,
                      IF arg[t].op = "GetObjectHashes" THEN HashesOf(EmptyMap, FALSE)
                      ELSE NoCid)
            /\ UNCHANGED cache
       ELSE /\ loaded' = [loaded EXCEPT ![t] = b.val]
            /\ cache' = cacheLoaded(arg[t].bucket)
            /\ ret' = IF arg[t].op = "GetObjectHashes"
                      THEN Returned("GetObjectHashes", nil, HashesOf(b.val.Objects, TRUE))
                      ELSE ret
            /\ pc' = [pc EXCEPT ![t] = "hashes_held"]
            /\ UNCHANGED <<rlock, arg>>
    /\ UNCHANGED <<lvars, isTest, dag, ds, wlock, written, steps>>

\* the unlock function is called: by the caller of GetObjectHashes when it is
\* done with the map, by GetObjectHash (deferred) when it returns the hash of
\* the object or ErrLedgerObjectDoesNotExist
GetObjectHashesUnlock(t) ==
    /\ pc[t] = "hashes_held"
    /\ rlock' = Unlocked(rlock, t)
    /\ IF arg[t].op = "GetObjectHashes"
       THEN /\ arg' = [arg EXCEPT ![t] = NoArg]
            /\ loaded' = [loaded EXCEPT ![t] = ZeroBucket]
            /\ pc' = [pc EXCEPT ![t] = "idle"]
            /\ UNCHANGED ret
       ELSE IF arg[t].object \in DOMAIN loaded[t].Objects
       THEN Return(t, "GetObjectHash", nil, loaded[t].Objects[arg[t].object])
       ELSE Return(t, "GetObjectHash", ErrLedgerObjectDoesNotExist, NoCid)
    /\ UNCHANGED <<lvars, isTest, dag, ds, cache, wlock, written, steps>>

\* names, prefixes, start names and limits of listings
ListNames == {<<1>>, <<1, 2>>, <<2>>, <<3>>}
Prefixes == {EmptyString, <<1>>}
StartNames == {EmptyString} \cup ListNames
MaxKeys == 2

\* a listing call with its result
Listing(bucket, prefix, startsFrom, max, list) ==
    [bucket |-> bucket, prefix |-> prefix, startsFrom |-> startsFrom,
     max |-> max, list |-> list]

\* ledgerStore.GetObjectInfos, the call behind ListObjects (startsFrom "" and
\* max 0) and ListObjectsV2: under the bucket's read lock, released on return
GetObjectInfos(t) ==
    /\ pc[t] = "idle"
    /\ \E bucket \in BucketNames, prefix \in Prefixes,
          startsFrom \in StartNames, max \in 0..MaxKeys :
          /\ CanRead(bucket)
          /\ cache' = cacheLoaded(bucket)
          /\ LET r == GetObjectInfosResult(bucket, prefix, startsFrom, max)
             IN Return(t, "GetObjectInfos", r.err,
                       Listing(bucket, prefix, startsFrom, max, r.val))
    /\ UNCHANGED <<lvars, isTest, dag, ds, wlock, rlock, written, steps>>

\* the buckets whose read lock GetObjectInfos takes on entry and holds until
\* it returns: defer ls.locker.read(bucket)()
GetObjectInfosLocksNone(bucket) == {}
GetObjectInfosLocks(bucket) == {bucket}

\* the listing of one bucket record: the ObjectInfo of each selected name
ListingOf(b, prefix, startsFrom, max) ==
    LET names == GetObjectInfosNames(b.Objects, prefix, startsFrom, max)
    IN [i \in 1..Len(names) |-> BlockOf(b.Objects[names[i]])[2].ObjectInfo]

\* ledgerStore.GetObjectInfos, step by step.  Entry: the read lock is taken;
\* snap is the bucket as it is at that moment (history)
GetObjectInfosCall(t, prefix, startsFrom) ==
    /\ pc[t] = "idle"
    /\ steps < MaxSteps
    /\ steps' = steps + 1
    /\ \E bucket \in BucketNames :
          /\ \A b \in GetObjectInfosLocks(bucket) : CanRead(b)
          /\ rlock' = [b \in BucketNames |->
                          IF b \in GetObjectInfosLocks(bucket)
                          THEN rlock[b] \cup {t} ELSE rlock[b]]
          /\ arg' = [arg EXCEPT ![t] =
                [NoArg EXCEPT !.op = "GetObjectInfos", !.bucket = bucket,
                              !.prefix = prefix, !.startsFrom = startsFrom,
                              !.snap = getBucketLoaded(bucket)]]
          /\ pc' = [pc EXCEPT ![t] = "list_load"]
    /\ UNCHANGED <<lvars, isTest, dag, ds, cache, wlock, loaded, ret, written>>

\* getBucketLoaded and the selection of the names
GetObjectInfosLoad(t) ==
    /\ pc[t] = "list_load"
    /\ LET b == getBucketLoaded(arg[t].bucket) IN
       IF b.err # nil
       THEN /\ Return(t, "GetObjectInfos", b.err,
                      Listing(arg[t].bucket, arg[t].prefix, arg[t].startsFrom,
                              arg[t].max, << >>))
            /\ rlock' = Unlocked(rlock, t)
            /\ UNCHANGED cache
       ELSE /\ arg' = [arg EXCEPT ![t].names =
                          GetObjectInfosNames(b.val.Objects, arg[t].prefix,
                                              arg[t].startsFrom, arg[t].max)]
            /\ cache' = cacheLoaded(arg[t].bucket)
            /\ pc' = [pc EXCEPT ![t] = "list_object"]
            /\ UNCHANGED <<rlock, loaded, ret>>
    /\ UNCHANGED <<lvars, isTest, dag, ds, wlock, written, steps>>

\* one turn of the loop over the names (ls.object of the next name), or the
\* return after the last name; the deferred unlock runs on every return
GetObjectInfosObject(t) ==
    /\ pc[t] = "list_object"
    /\ IF Len(arg[t].list) = Len(arg[t].names)
       THEN /\ Return(t, "GetObjectInfos", nil,
                      Listing(arg[t].bucket, arg[t].prefix, arg[t].startsFrom,
                              arg[t].max, arg[t].list))
            /\ rlock' = Unlocked(rlock, t)
            /\ UNCHANGED cache
       ELSE LET obj == object(arg[t].bucket, arg[t].names[Len(arg[t].list) + 1]) IN
            IF obj.err # nil
            THEN /\ Return(t, "GetObjectInfos", obj.err,
                           Listing(arg[t].bucket, arg[t].prefix, arg[t].startsFrom,
                                   arg[t].max, << >>))
                 /\ rlock' = Unlocked(rlock, t)
                 /\ UNCHANGED cache
            ELSE /\ arg' = [arg EXCEPT ![t].list = Append(@, obj.val.ObjectInfo)]
                 /\ cache' = cacheLoaded(arg[t].bucket)
                 /\ UNCHANGED <<rlock, loaded, ret, pc>>
    /\ UNCHANGED <<lvars, isTest, dag, ds, wlock, written, steps>>

\* ListObjectsV2 asks GetObjectInfos for at most this many entries
ListObjectsV2Max == 1000
MaxPages == 3

\* a page of an enumeration: its arguments, the objects returned, and the
\* names the earlier pages of the enumeration returned
Page(bucket, prefix, continuationToken, startAfter, list, earlier) ==
    [bucket |-> bucket, prefix |-> prefix, continuationToken |-> continuationToken,
     startAfter |-> startAfter, list |-> list, seen |-> earlier]

\* xObjects.ListObjectsV2: GetObjectInfos(bucket, prefix, startAfter, 1000);
\* continuationToken is not passed on
ListObjectsV2Result(bucket, prefix, continuationToken, startAfter) ==
    LET r == GetObjectInfosResult(bucket, prefix, startAfter, ListObjectsV2Max)
    IN Result(IF r.err # nil THEN toMinioErr(r.err) ELSE nil, r.val)

\* the first page of an enumeration (no continuation token), or the next page,
\* asked for with the last name of the page before as continuation token
ListObjectsV2(t) ==
    /\ pc[t] = "idle"
    /\ steps < MaxPages
    /\ steps' = steps + 1
    /\ \E bucket \in BucketNames, prefix \in Prefixes, startAfter \in StartNames,
          next \in BOOLEAN :
          LET last == ret.val
              continuationToken ==
                  IF next THEN last.list[Len(last.list)].Name ELSE EmptyString
              earlier ==
                  IF next THEN last.seen \o [i \in 1..Len(last.list) |-> last.list[i].Name]
                  ELSE << >>
              r == ListObjectsV2Result(bucket, prefix, continuationToken, startAfter)
          IN /\ next => /\ ret.op = "ListObjectsV2"
                        /\ ret.err = nil
                        /\ last.list # << >>
                        /\ bucket = last.bucket
                        /\ prefix = last.prefix
                        /\ startAfter = last.startAfter
             /\ CanRead(bucket)
             /\ cache' = cacheLoaded(bucket)
             /\ Return(t, "ListObjectsV2", r.err,
                       Page(bucket, prefix, continuationToken, startAfter, r.val, earlier))
    /\ UNCHANGED <<lvars, isTest, dag, ds, wlock, rlock, written>>

-----------------------------------------------------------------------------
(* multipart uploads (ledgerStore, gateway-s3x-object.go 582-653, 752-768) *)

UploadIDs == {"u1", "u2"}
MaxParts == 2
PartNumbers == 1..MaxParts
MaxUploadSteps == 4

\* nobody's: the holder of a lock whose unlock function was dropped
Leaked == 0

\* ObjectPartInfo and MultipartUpload
ObjectPartInfoOf(number, dataHash) == [Number |-> number, DataHash |-> dataHash]
MultipartUploadOf(id, info, parts) == [Id |-> id, ObjectInfo |-> info, ObjectParts |-> parts]

\* history of an upload id: never initiated, initiated or aborted; the bucket
\* of the call that initiated or aborted it; and, per part number, the payload
\* of the last PutObjectPart made on it since it was initiated
NoUpload == [status |-> "none", bucket |-> EmptyString, puts |-> EmptyMap]

MultipartInit ==
    /\ MultipartUploads = NilGoMap
    /\ uploads = [id \in UploadIDs |-> NoUpload]

\* Ledger.multipartExists: the map value of a missing id is a nil pointer,
\* whose Id field cannot be read
multipartExists(m, id) ==
    IF m.isNil THEN ErrInvalidUploadID
    ELSE IF id \notin DOMAIN m.kv THEN Panic
    ELSE IF m.kv[id].Id = "" THEN ErrInvalidUploadID
    ELSE nil

\* Ledger.deleteMultipartID: delete on a nil map does nothing
deleteMultipartIDKeeps(m, id) == m
deleteMultipartID(m, id) == IF m.isNil THEN m ELSE GoMap(FALSE, MapDelete(m.kv, id))

\* ledgerStore.bucketExists
lsBucketExists(bucket) == bucket \in DOMAIN ds

\* ledgerStore.AbortMultipartUpload: the error returned
AbortMultipartUploadResult(bucket, multipartID) ==
    IF ~lsBucketExists(bucket) THEN ErrLedgerBucketDoesNotExist
    ELSE multipartExists(MultipartUploads, multipartID)

\* ledgerStore.GetObjectParts
GetObjectPartsResult(id) ==
    IF multipartExists(MultipartUploads, id) # nil
    THEN Result(multipartExists(MultipartUploads, id), NilGoMap)
    ELSE Result(nil, MultipartUploads.kv[id].ObjectParts)

\* ledgerStore.MultipartIDExists
MultipartIDExistsResult(id) == multipartExists(MultipartUploads, id)

\* ledgerStore.PutObjectPart: the error returned and the map afterwards; the
\* part is stored under its hash in the upload's ObjectParts map, which
\* NewMultipartUpload leaves nil
PutObjectPartResult(bucketName, objectName, partHash, multipartID, partNumber) ==
    IF assertBucketExits(bucketName) # nil
    THEN Result(assertBucketExits(bucketName), MultipartUploads)
    ELSE IF MultipartUploads.isNil \/ multipartID \notin DOMAIN MultipartUploads.kv
    THEN Result(ErrInvalidUploadID, MultipartUploads)
    ELSE LET mpart == MultipartUploads.kv[multipartID] IN
         IF mpart.ObjectParts.isNil THEN Result(Panic, MultipartUploads)
         ELSE Result(nil,
                GoMap(FALSE,
                  MapPut(MultipartUploads.kv, multipartID,
                    [mpart EXCEPT !.ObjectParts =
                        GoMap(FALSE, MapPut(@.kv, partHash,
                                            ObjectPartInfoOf(partNumber, partHash)))])))

\* ledgerStore.NewMultipartUpload up to its return statement: the deferred
\* locker.write(bucket) has not been called yet
NewMultipartUploadBody(t, multipartID, bucket, name) ==
    LET info == newObjectInfo(bucket, name, 0, 0)
        err == assertBucketExits(bucket)
    IN /\ arg' = [arg EXCEPT ![t] =
                     [NoArg EXCEPT !.op = "NewMultipartUpload",
                                   !.bucket = bucket, !.object = name,
                                   !.err = err]]
       /\ IF err # nil
          THEN UNCHANGED mvars
          ELSE /\ MultipartUploads' =
                     GoMap(FALSE, MapPut(MultipartUploads.kv, multipartID,
                                         MultipartUploadOf(multipartID, info, NilGoMap)))
               /\ uploads' = [uploads EXCEPT ![multipartID] =
                                 [status |-> "initiated", bucket |-> bucket,
                                  puts |-> EmptyMap]]
       /\ pc' = [pc EXCEPT ![t] = "new_defer"]

NewMultipartUploadCall(t) ==
    /\ pc[t] = "idle"
    /\ steps < MaxUploadSteps
    /\ steps' = steps + 1
    /\ \E multipartID \in UploadIDs, bucket \in BucketNames, name \in ObjectNames :
          NewMultipartUploadBody(t, multipartID, bucket, name)
    /\ UNCHANGED <<svars, cvars, ledgerBytes, call, live, isTest, dag, ds, cache, wlock, rlock,
                   loaded, ret, written>>

\* the return of NewMultipartUpload: the deferred call locker.write(bucket)
\* takes the bucket's write lock, and the unlock function it returns is dropped
NewMultipartUploadReturn(t) ==
    /\ pc[t] = "new_defer"
    /\ CanWrite(arg[t].bucket)
    /\ wlock' = [wlock EXCEPT ![arg[t].bucket] = {Leaked}]
    /\ Return(t, "NewMultipartUpload", arg[t].err, << >>)
    /\ UNCHANGED <<lvars, isTest, dag, ds, cache, rlock, written, steps>>

\* ledgerStore.PutObjectPart, of a part whose bytes hash to partHash
PutObjectPartBody(t, bucketName, multipartID, partNumber, data) ==
    LET r == PutObjectPartResult(bucketName, <<1>>, Cid(RawBlock(data)),
                                 multipartID, partNumber)
    IN /\ MultipartUploads' = r.val
       /\ uploads' =
             IF uploads[multipartID].status = "initiated"
                /\ assertBucketExits(bucketName) = nil
             THEN [uploads EXCEPT ![multipartID].puts = MapPut(@, partNumber, data)]
             ELSE uploads
       /\ Return(t, "PutObjectPart", r.err,
                 [bucket |-> bucketName, id |-> multipartID])

PutObjectPart(t) ==
    /\ pc[t] = "idle"
    /\ steps < MaxUploadSteps
    /\ steps' = steps + 1
    /\ \E bucketName \in BucketNames, multipartID \in UploadIDs,
          partNumber \in PartNumbers, data \in Payloads :
          PutObjectPartBody(t, bucketName, multipartID, partNumber, data)
    /\ UNCHANGED <<svars, cvars, ledgerBytes, call, live, isTest, dag, ds, cache, wlock, rlock, written>>

\* ledgerStore.AbortMultipartUpload
AbortMultipartUploadBody(t, bucket, multipartID) ==
    LET err == AbortMultipartUploadResult(bucket, multipartID) IN
    /\ IF err # nil
       THEN UNCHANGED mvars
       ELSE /\ MultipartUploads' = deleteMultipartID(MultipartUploads, multipartID)
            /\ uploads' = [uploads EXCEPT ![multipartID] =
                              [status |-> "aborted", bucket |-> bucket,
                               puts |-> EmptyMap]]
    /\ Return(t, "AbortMultipartUpload", err, multipartID)

AbortMultipartUpload(t) ==
    /\ pc[t] = "idle"
    /\ steps < MaxUploadSteps
    /\ steps' = steps + 1
    /\ \E bucket \in BucketNames, multipartID \in UploadIDs :
          AbortMultipartUploadBody(t, bucket, multipartID)
    /\ UNCHANGED <<svars, cvars, ledgerBytes, call, live, isTest, dag, ds, cache, wlock, rlock, written>>

\* ledgerStore.GetObjectParts
GetObjectParts(t) ==
    /\ pc[t] = "idle"
    /\ \E id \in UploadIDs :
          Return(t, "GetObjectParts", GetObjectPartsResult(id).err,
                 GetObjectPartsResult(id).val)
    /\ UNCHANGED <<lvars, isTest, dag, ds, cache, wlock, rlock, written, steps>>

\* ledgerStore.MultipartIDExists
MultipartIDExists(t) ==
    /\ pc[t] = "idle"
    /\ \E id \in UploadIDs :
          Return(t, "MultipartIDExists", MultipartIDExistsResult(id), id)
    /\ UNCHANGED <<lvars, isTest, dag, ds, cache, wlock, rlock, written, steps>>

(* The multipart calls as two threads run them: a call is entered, and later
   makes its accesses of the map and returns.  No function calls the locker
   before its accesses (NewMultipartUpload's deferred locker.write runs at its
   return), so entering has no lock to wait for. *)

MultipartCalls ==
    {"NewMultipartUpload", "PutObjectPart", "AbortMultipartUpload",
     "GetObjectParts", "MultipartIDExists"}

\* the calls that assign to, or delete from, MultipartUploads or a parts map
WritesMap(op) == op \in {"NewMultipartUpload", "PutObjectPart", "AbortMultipartUpload"}

\* thread t is between the entry of a multipart call and its map accesses
InMap(t) == pc[t] = "mp_map"

\* t and another thread are both at the map and one of them writes
Racing(t) ==
    \E u \in Threads \ {t} :
        InMap(t) /\ InMap(u) /\ (WritesMap(arg[t].op) \/ WritesMap(arg[u].op))

MaxRaceCalls == 3

\* the arguments a call takes: all take an id; the getters take no bucket, and
\* only PutObjectPart takes a part
MultipartArgs(op, bucket, id, partNumber, data) ==
    [NoArg EXCEPT !.op = op, !.id = id,
                  !.bucket = IF WritesMap(op) THEN bucket ELSE EmptyString,
                  !.partNumber = IF op = "PutObjectPart" THEN partNumber ELSE 0,
                  !.data = IF op = "PutObjectPart" THEN data ELSE << >>]

MultipartEnter(t) ==
    /\ pc[t] = "idle"
    /\ steps < MaxRaceCalls
    /\ steps' = steps + 1
    /\ \E op \in MultipartCalls, bucket \in BucketNames, id \in UploadIDs,
          partNumber \in PartNumbers, data \in Payloads :
          arg' = [arg EXCEPT ![t] = MultipartArgs(op, bucket, id, partNumber, data)]
    /\ pc' = [pc EXCEPT ![t] = "mp_map"]
    /\ UNCHANGED <<lvars, isTest, dag, ds, cache, wlock, rlock, loaded, ret, written>>

\* the accesses and the return.  Unsynchronised accesses of a Go map, one of
\* them a write, are a data race: the runtime may stop the program (fatal
\* error: concurrent map read and map write) or let the access go through
MultipartMapAccess(t) ==
    /\ pc[t] = "mp_map"
    /\ \E crash \in (IF Racing(t) THEN {FALSE, TRUE} ELSE {FALSE}) :
          \/ /\ crash
             /\ Return(t, arg[t].op, Panic, << >>)
             /\ UNCHANGED mvars
          \/ /\ ~crash
             /\ arg[t].op = "NewMultipartUpload"
             /\ NewMultipartUploadBody(t, arg[t].id, arg[t].bucket, <<1>>)
             /\ UNCHANGED <<loaded, ret>>
          \/ /\ ~crash
             /\ arg[t].op = "PutObjectPart"
             /\ PutObjectPartBody(t, arg[t].bucket, arg[t].id, arg[t].partNumber,
                                  arg[t].data)
          \/ /\ ~crash
             /\ arg[t].op = "AbortMultipartUpload"
             /\ AbortMultipartUploadBody(t, arg[t].bucket, arg[t].id)
          \/ /\ ~crash
             /\ arg[t].op = "GetObjectParts"
             /\ Return(t, "GetObjectParts", GetObjectPartsResult(arg[t].id).err,
                       GetObjectPartsResult(arg[t].id).val)
             /\ UNCHANGED mvars
          \/ /\ ~crash
             /\ arg[t].op = "MultipartIDExists"
             /\ Return(t, "MultipartIDExists", MultipartIDExistsResult(arg[t].id),
                       arg[t].id)
             /\ UNCHANGED mvars
    /\ UNCHANGED <<svars, cvars, ledgerBytes, call, live, isTest, dag, ds, cache, wlock, rlock,
                   written, steps>>

-----------------------------------------------------------------------------
(* crdtDAGSyncer (crdt_dagsyncer.go) *)

\* the byte strings a block can hold; the ones in ProtoNodes decode to a node
RawDatas == {<<7>>, <<8, 9>>, <<0>>}
ProtoNodes == {<<7>>, <<8, 9>>}

\* the multihash of a byte string, and the CIDs that carry it: a CID names its
\* version and the multihash of the block
Sum(data) == <<"sha2-256", data>>
CidOf(version, data) == [version |-> version, mh |-> Sum(data)]
SyncerCids == {CidOf(version, data) : version \in {0, 1}, data \in RawDatas}

\* blocks.NewBlock(data): the block and its CID, a version 0 CID of the data
NewBlock(data) == [RawData |-> data, cid |-> CidOf(0, data)]

\* ipld.Node values: nil or the decoded node
NilNode == [isNil |-> TRUE, RawData |-> << >>]
NodeOf(data) == [isNil |-> FALSE, RawData |-> data]

ErrTransport == "ErrTransport"
ErrUnexpectedData == "unexpected data received from node server"
ErrDecode == "ErrDecode"
ErrDatastore == "ErrDatastore"

\* ipld.Decode(block)
Decode(block) ==
    IF block.RawData \in ProtoNodes
    THEN [node |-> NodeOf(block.RawData), err |-> nil]
    ELSE [node |-> NilNode, err |-> ErrDecode]

\* what d.client.Dag can answer: a transport error or any bytes
DagResponse(err, data) == [err |-> err, RawData |-> data]
DagResponses ==
    {DagResponse(ErrTransport, << >>)} \cup {DagResponse(nil, data) : data \in RawDatas}

\* setBlock(c, errs...): an error passed in is returned and nothing is stored;
\* otherwise the key of c is put, which the datastore may refuse (putErr)
setBlockIgnoresErrors(s, c, err, putErr) ==
    IF err # nil THEN [err |-> err, seen |-> s \cup {c}]
    ELSE IF putErr # nil THEN [err |-> putErr, seen |-> s \cup {c}]
    ELSE [err |-> nil, seen |-> s \cup {c}]
setBlockOn(s, c, err, putErr) ==
    IF err # nil THEN [err |-> err, seen |-> s]
    ELSE IF putErr # nil THEN [err |-> putErr, seen |-> s]
    ELSE [err |-> nil, seen |-> s \cup {c}]
setBlock(c, err, putErr) == setBlockOn(seen, c, err, putErr)

\* crdtDAGSyncer.Get after d.client.Dag answered resp
GetResultUnverified(c, resp, putErr) ==
    IF resp.err # nil THEN [node |-> NilNode, err |-> resp.err, seen |-> seen]
    ELSE LET block == NewBlock(resp.RawData)
             n == Decode(block)
             s == setBlock(c, n.err, putErr)
         IN [node |-> n.node, err |-> s.err, seen |-> s.seen]
GetResult(c, resp, putErr) ==
    IF resp.err # nil THEN [node |-> NilNode, err |-> resp.err, seen |-> seen]
    ELSE LET block == NewBlock(resp.RawData) IN
         IF block.cid # c
         THEN [node |-> NilNode, err |-> ErrUnexpectedData, seen |-> seen]
         ELSE LET n == Decode(block)
                  s == setBlock(c, n.err, putErr)
              IN [node |-> n.node, err |-> s.err, seen |-> s.seen]

\* HasBlock(c)
HasBlock(c) == c \in seen

\* a call and its result; ns and cs are the slices of AddMany and RemoveMany,
\* failedAt the index of the element the loop returned at (0: none)
DagCall(op, c, resp, node, err) ==
    [op |-> op, c |-> c, resp |-> resp, node |-> node, err |-> err,
     ns |-> << >>, cs |-> << >>, failedAt |-> 0]

\* ipld.NodeOption
NodeOption(node, err) == [Node |-> node, Err |-> err]

\* make(chan *ipld.NodeOption, n), and the nil channel
Chan(n) == [buf |-> << >>, cap |-> n, closed |-> FALSE]

\* the goroutine GetMany starts: at "get" it is at the head of its loop, at
\* "send" at out <- opt; gets lists the Get calls it made and their results
Goroutine(cs, i, at, opt, gets) ==
    [cs |-> cs, i |-> i, pc |-> at, opt |-> opt, gets |-> gets]

SyncerInit ==
    /\ getMany = Goroutine(<< >>, 0, "none", NodeOption(NilNode, nil), << >>)
    /\ out = Chan(0)
    /\ received = << >>
    /\ seen = {}
    /\ dagCall = DagCall("", CidOf(0, << >>), DagResponse(nil, << >>), NilNode, nil)

\* crdtDAGSyncer.Get(c)
Get(c) ==
    /\ \E resp \in DagResponses, putErr \in {nil, ErrDatastore} :
          LET r == GetResult(c, resp, putErr) IN
          /\ seen' = r.seen
          /\ dagCall' = DagCall("Get", c, resp, r.node, r.err)
    /\ UNCHANGED <<ledgerBytes, call, live, cvars, mvars, evars, gvars>>

\* crdtDAGSyncer.Add(n): AddMany of one ProtoNode, saved on the node server
\* (which may fail) and then marked with setBlock(n.Cid())
Add(data) ==
    /\ \E saveErr \in {nil, ErrTransport}, putErr \in {nil, ErrDatastore} :
          LET s == setBlock(CidOf(0, data), saveErr, putErr) IN
          /\ seen' = s.seen
          /\ dagCall' = DagCall("Add", CidOf(0, data), DagResponse(saveErr, << >>),
                                NodeOf(data), s.err)
    /\ UNCHANGED <<ledgerBytes, call, live, cvars, mvars, evars, gvars>>

\* ds.Delete of the key of c, the keys in s being stored: a key that is not
\* stored is no error; the datastore may refuse
Delete(s, c, delErr) ==
    IF delErr # nil THEN [err |-> delErr, seen |-> s]
    ELSE [err |-> nil, seen |-> s \ {c}]

\* crdtDAGSyncer.Remove(c): RemoveMany of one CID; the datastore may refuse
Remove(c) ==
    /\ \E delErr \in {nil, ErrDatastore} :
          /\ seen' = Delete(seen, c, delErr).seen
          /\ dagCall' = DagCall("Remove", c, DagResponse(nil, << >>), NilNode, delErr)
    /\ UNCHANGED <<ledgerBytes, call, live, cvars, mvars, evars, gvars>>

\* the nodes AddMany can be given: ProtoNodes and a node of another type
ErrCanNotAdd == "Can not add type using dag client"
ProtoNode(data) == [type |-> "ProtoNode", RawData |-> data]
OtherNode(data) == [type |-> "RawNode", RawData |-> data]
SyncerNodes == {ProtoNode(data) : data \in ProtoNodes} \cup {OtherNode(<<0>>)}
NodeCid(n) == CidOf(IF n.type = "ProtoNode" THEN 0 ELSE 1, n.RawData)

\* the longest slice given to AddMany and RemoveMany
MaxNodes == 2
NodeSlices == UNION {[1..k -> SyncerNodes] : k \in 1..MaxNodes}
CidSlices == UNION {[1..k -> {NodeCid(n) : n \in SyncerNodes}] : k \in 1..MaxNodes}
\* what the calls made for the elements of a slice answer: the loops return
\* at the first error, so at most one element is answered with the error E
ErrorSlices(ns, E) ==
    {[j \in 1..Len(ns) |-> IF j = i THEN E ELSE nil] : i \in 0..Len(ns)}

\* the loop of AddMany from its i-th node on, the keys in s being stored:
\* a node of another type, a failed save and a failed setBlock return at once
RECURSIVE AddManyFrom(_, _, _, _, _)
AddManyFrom(ns, saveErrs, putErrs, i, s) ==
    IF i > Len(ns) THEN [err |-> nil, seen |-> s, failedAt |-> 0]
    ELSE IF ns[i].type # "ProtoNode"
    THEN [err |-> ErrCanNotAdd, seen |-> s, failedAt |-> i]
    ELSE IF saveErrs[i] # nil
    THEN [err |-> saveErrs[i], seen |-> s, failedAt |-> i]
    ELSE LET b == setBlockOn(s, NodeCid(ns[i]), nil, putErrs[i]) IN
         IF b.err # nil THEN [err |-> b.err, seen |-> b.seen, failedAt |-> i]
         ELSE AddManyFrom(ns, saveErrs, putErrs, i + 1, b.seen)

\* crdtDAGSyncer.AddMany(ns)
AddMany(ns) ==
    /\ \E saveErrs \in ErrorSlices(ns, ErrTransport),
          putErrs \in ErrorSlices(ns, ErrDatastore) :
          LET r == AddManyFrom(ns, saveErrs, putErrs, 1, seen) IN
          /\ seen' = r.seen
          /\ dagCall' = [DagCall("AddMany", NodeCid(ns[1]), DagResponse(nil, << >>),
                                 NilNode, r.err)
                            EXCEPT !.ns = ns, !.failedAt = r.failedAt]
    /\ UNCHANGED <<ledgerBytes, call, live, cvars, mvars, evars, gvars>>

\* the loop of RemoveMany from its i-th CID on
RECURSIVE RemoveManyFrom(_, _, _, _)
RemoveManyFrom(cs, delErrs, i, s) ==
    IF i > Len(cs) THEN [err |-> nil, seen |-> s, failedAt |-> 0]
    ELSE LET r == Delete(s, cs[i], delErrs[i]) IN
         IF r.err # nil THEN [err |-> r.err, seen |-> r.seen, failedAt |-> i]
         ELSE RemoveManyFrom(cs, delErrs, i + 1, r.seen)

\* crdtDAGSyncer.RemoveMany(cs)
RemoveMany(cs) ==
    /\ \E delErrs \in ErrorSlices(cs, ErrDatastore) :
          LET r == RemoveManyFrom(cs, delErrs, 1, seen) IN
          /\ seen' = r.seen
          /\ dagCall' = [DagCall("RemoveMany", cs[1], DagResponse(nil, << >>),
                                 NilNode, r.err)
                            EXCEPT !.cs = cs, !.failedAt = r.failedAt]
    /\ UNCHANGED <<ledgerBytes, call, live, cvars, mvars, evars, gvars>>

\* the capacity GetMany gives its channel
Unbuffered(cs) == 0
Capacity(cs) == Len(cs)

\* GetMany(cs): makes the channel, starts the goroutine and returns the channel
GetManyCall(cs) ==
    /\ getMany.pc \in {"none", "done"}
    /\ out' = Chan(Capacity(cs))
    /\ getMany' = Goroutine(cs, 1, "get", NodeOption(NilNode, nil), << >>)
    /\ received' = << >>
    /\ UNCHANGED <<ledgerBytes, call, live, cvars, mvars, evars, seen, dagCall>>

\* the goroutine: n, err := d.Get(ctx, c) for the next c of the range
GetManyGet ==
    /\ getMany.pc = "get"
    /\ getMany.i <= Len(getMany.cs)
    /\ \E resp \in DagResponses, putErr \in {nil, ErrDatastore} :
          LET c == getMany.cs[getMany.i]
              r == GetResult(c, resp, putErr)
          IN /\ seen' = r.seen
             /\ dagCall' = DagCall("Get", c, resp, r.node, r.err)
             /\ getMany' = [getMany EXCEPT
                              !.pc = "send",
                              !.opt = NodeOption(r.node, r.err),
                              !.gets = Append(@, [c |-> c, node |-> r.node,
                                                  err |-> r.err])]
    /\ UNCHANGED <<ledgerBytes, call, live, cvars, mvars, evars, out, received>>

\* the goroutine: out <- &ipld.NodeOption{...}; the send waits while the
\* buffer of the channel is full
GetManySend ==
    /\ getMany.pc = "send"
    /\ Len(out.buf) < out.cap
    /\ out' = [out EXCEPT !.buf = Append(@, getMany.opt)]
    /\ getMany' = [getMany EXCEPT !.pc = "get", !.i = @ + 1]
    /\ UNCHANGED <<ledgerBytes, call, live, cvars, mvars, evars, seen, dagCall, received>>

\* the goroutine: the range is over, close(out)
GetManyClose ==
    /\ getMany.pc = "get"
    /\ getMany.i > Len(getMany.cs)
    /\ out' = [out EXCEPT !.closed = TRUE]
    /\ getMany' = [getMany EXCEPT !.pc = "done"]
    /\ UNCHANGED <<ledgerBytes, call, live, cvars, mvars, evars, seen, dagCall, received>>

\* the caller of GetMany reads the next option from the channel
GetManyReceive ==
    /\ Len(out.buf) > 0
    /\ received' = Append(received, Head(out.buf))
    /\ out' = [out EXCEPT !.buf = Tail(@)]
    /\ UNCHANGED <<ledgerBytes, call, live, cvars, mvars, evars, seen, dagCall, getMany>>

-----------------------------------------------------------------------------
(* Claims about the LedgerStore *)

\* how often name occurs in the slice s
Occurrences(s, name) == Cardinality({i \in 1..Len(s) : s[i] = name})

\* C5: a bucket whose creation succeeded is visible until it is deleted:
\* BucketExists is true, GetBucketHash succeeds on the entry named b, and every
\* GetBucketNames result lists b exactly once; any other name is reported as
\* not existing and is not listed.
C5_BucketVisibility ==
    \A b \in LedgerBucketNames :
        IF b \in live
        THEN /\ BucketExists(b)
             /\ GetBucketHash(b)[2] = nil
             /\ GetBucketHash(b)[1] \in Hashes
             /\ GetBuckets(getLedger, b).Name = b
             /\ \A s \in LedgerGetBucketNames : Occurrences(s, b) = 1
        ELSE /\ ~BucketExists(b)
             /\ GetBucketHash(b) = <<"", ErrLedgerBucketDoesNotExist>>
             /\ \A s \in LedgerGetBucketNames : Occurrences(s, b) = 0

\* a bucket was deleted while another one, created earlier, is still there
C5_Witness ==
    /\ call.op = "DeleteBucket"
    /\ call.ret = nil
    /\ live # {}
    /\ call.bucket \notin live

\* C6: NewBucket on a name that exists returns ErrLedgerBucketExists and leaves
\* the persisted ledger (that bucket's hash and objects, and every other
\* bucket) exactly as it was.
C6_DuplicateCreateRejected ==
    [][(call'.op = "NewBucket" /\ BucketExists(call'.bucket))
          => (call'.ret = ErrLedgerBucketExists /\ ledgerBytes' = ledgerBytes)]_vars

\* a duplicate creation was rejected for a bucket that holds an object and
\* whose hash differs from the one offered, with a second bucket present
C6_Witness ==
    /\ call.op = "NewBucket"
    /\ call.ret = ErrLedgerBucketExists
    /\ GetBucketHash(call.bucket)[1] # call.hash
    /\ DOMAIN LedgerGetObjectHashes(call.bucket)[1] # {}
    /\ Cardinality(live) >= 2

\* C7: once RemoveObject(b, o) has returned nil, ObjectExists(b, o) reports
\* ErrLedgerObjectDoesNotExist and o is no longer among GetObjectHashes(b).
C7_DeleteObserved ==
    (call.op = "RemoveObject" /\ call.ret = nil)
        => /\ ObjectExists(call.bucket, call.object) = ErrLedgerObjectDoesNotExist
           /\ call.object \notin DOMAIN LedgerGetObjectHashes(call.bucket)[1]

-----------------------------------------------------------------------------
(* Claims about the engine *)

ObjectKeys == BucketNames \X ObjectNames

\* the objects map of a bucket's current record (empty for a missing bucket)
ObjectsOf(bucket) == getBucketLoaded(bucket).val.Objects

\* C1: an object whose last committed write stored bytes is read back as
\* exactly those bytes by GetObject (whole object, and offset 0 with the
\* payload's length), and GetObjectInfo reports their length as its size.
C1_ReadAfterWrite ==
    \A k \in ObjectKeys :
        written[k].has =>
            /\ GetObjectNInfoResult(k[1], k[2]) = Result(nil, written[k].data)
            /\ GetObjectResult(k[1], k[2], 0, Len(written[k].data))
                  = Result(nil, written[k].data)
            /\ GetObjectInfoResult(k[1], k[2]).err = nil
            /\ GetObjectInfoResult(k[1], k[2]).val.Size = Len(written[k].data)

\* a GetObject returned the second payload of the only object there is, which
\* was written twice with different bytes
C1_Witness ==
    /\ ret.op = "GetObject"
    /\ ret.err = nil
    /\ \E k \in ObjectKeys :
          /\ written[k].has
          /\ written[k].over
          /\ ret.val = written[k].data
          /\ \A j \in ObjectKeys \ {k} : ~written[j].has

\* C2: PutObject calls on one bucket take effect one at a time: a put that has
\* loaded the bucket record commits onto the record that is still current, so
\* the bucket's object map holds exactly the objects written and not deleted,
\* and each of them reads back as the complete payload of one put.
C2_PutsLinearizable ==
    /\ \A t \in Threads :
          pc[t] = "put_commit" =>
              /\ wlock[arg[t].bucket] = {t}
              /\ loaded[t] = getBucketLoaded(arg[t].bucket).val
    /\ \A k \in ObjectKeys :
          /\ written[k].has <=> k[2] \in DOMAIN ObjectsOf(k[1])
          /\ written[k].has =>
                /\ GetObjectNInfoResult(k[1], k[2]).err = nil
                /\ GetObjectNInfoResult(k[1], k[2]).val \in Payloads

\* two puts of different payloads to one object are in flight at once, one
\* holding the bucket's write lock and one waiting for it, and the bucket
\* already holds another object
C2_Witness ==
    \E t, u \in Threads :
        /\ pc[t] = "put_commit"
        /\ pc[u] = "put_lock"
        /\ arg[t].bucket = arg[u].bucket
        /\ arg[t].object = arg[u].object
        /\ arg[t].data # arg[u].data
        /\ DOMAIN ObjectsOf(arg[t].bucket) \ {arg[t].object} # {}

\* the lexicographically smaller / larger of two bucket names
Smaller(x, y) == IF Compare(x, y) < 0 THEN x ELSE y
Larger(x, y) == IF Compare(x, y) < 0 THEN y ELSE x

Holds(t, bucket) == t \in wlock[bucket] \cup rlock[bucket]

InCopy(t) == pc[t] \in {"copy_lock1", "copy_lock2", "copy_body"}

\* the lock thread t's CopyObject is waiting for
CopyWanted(t) ==
    CopyLocks(arg[t].srcBucket, arg[t].bucket)[IF pc[t] = "copy_lock1" THEN 1 ELSE 2]

\* thread t waits for a lock that thread u keeps it from getting
WaitsFor(t, u) ==
    /\ t # u
    /\ pc[t] \in {"copy_lock1", "copy_lock2"}
    /\ IF CopyWanted(t).kind = "write"
       THEN Holds(u, CopyWanted(t).bucket)
       ELSE u \in wlock[CopyWanted(t).bucket]

\* C3: concurrent CopyObject calls never wait for each other in a cycle, and
\* every CopyObject that has started returns, holding none of its locks.
C3_CopyTerminates ==
    /\ [](\A t, u \in Threads : ~(WaitsFor(t, u) /\ WaitsFor(u, t)))
    /\ \A t \in Threads :
          InCopy(t) ~> (pc[t] = "idle" /\ \A b \in BucketNames : ~Holds(t, b))

\* the copies A -> B and B -> A are both in progress and one of them waits
\* for a lock the other holds
C3_Witness ==
    \E t, u \in Threads :
        /\ InCopy(t)
        /\ InCopy(u)
        /\ arg[t].srcBucket = arg[u].bucket
        /\ arg[t].bucket = arg[u].srcBucket
        /\ arg[t].srcBucket # arg[t].bucket
        /\ WaitsFor(t, u)

\* C4 as stated: a cross-bucket CopyObject that holds one of its two locks
\* holds the one on the smaller bucket name.
C4_SmallerNameFirst ==
    \A t \in Threads :
        pc[t] = "copy_lock2" =>
            /\ Holds(t, Smaller(arg[t].srcBucket, arg[t].bucket))
            /\ ~Holds(t, Larger(arg[t].srcBucket, arg[t].bucket))

\* C4 amended: a cross-bucket CopyObject takes the lock on the larger bucket
\* name first, whichever of the two is the source (read lock) and whichever
\* the destination (write lock); under both locks it holds the read lock of
\* the source and the write lock of the destination.
C4_LargerNameFirst ==
    \A t \in Threads :
        /\ pc[t] = "copy_lock2" =>
              /\ arg[t].srcBucket # arg[t].bucket
              /\ Holds(t, Larger(arg[t].srcBucket, arg[t].bucket))
              /\ ~Holds(t, Smaller(arg[t].srcBucket, arg[t].bucket))
        /\ (pc[t] = "copy_body" /\ arg[t].srcBucket # arg[t].bucket) =>
              /\ t \in rlock[arg[t].srcBucket]
              /\ t \in wlock[arg[t].bucket]

\* both directions are in progress: one copy holds the read lock of its source,
\* the larger name, and the opposite copy waits for the write lock of the same
\* bucket, its destination, holding nothing
C4_Witness ==
    \E t, u \in Threads :
        /\ pc[t] = "copy_lock2"
        /\ pc[u] = "copy_lock1"
        /\ Compare(arg[t].srcBucket, arg[t].bucket) > 0
        /\ Compare(arg[u].srcBucket, arg[u].bucket) < 0
        /\ t \in rlock[arg[u].bucket]
        /\ \A b \in BucketNames : ~Holds(u, b)

-----------------------------------------------------------------------------
\* thread t's CopyObject returns in this step
CopyReturns(t) == pc[t] = "copy_body" /\ pc'[t] = "idle"

\* the entry of a bucket's object map under name (NoCid when there is none)
Entry(bucket, name) == MapGet(ObjectsOf(bucket), name, NoCid)

\* what a successful CopyObject leaves at its destination
CopyDestination(srcBucket, srcObject, dstBucket, dstObject) ==
    /\ object(srcBucket, srcObject).err = nil
    /\ GetObjectNInfoResult(srcBucket, srcObject).err = nil
    /\ (object(dstBucket, dstObject))'.err = nil
    /\ (object(dstBucket, dstObject))'.val.DataHash
          = object(srcBucket, srcObject).val.DataHash
    /\ (object(dstBucket, dstObject))'.val.ObjectInfo.Bucket = dstBucket
    /\ (object(dstBucket, dstObject))'.val.ObjectInfo.Name = dstObject
    /\ (GetObjectNInfoResult(dstBucket, dstObject))'
          = GetObjectNInfoResult(srcBucket, srcObject)
    /\ (<<srcBucket, srcObject>> # <<dstBucket, dstObject>>
          => (object(srcBucket, srcObject))' = object(srcBucket, srcObject))

\* C8 as stated: a successful CopyObject leaves the destination with the
\* source's dataHash, the destination's names and the source's bytes, and
\* leaves the source record and the whole object map of the source bucket
\* unchanged when source and destination differ; a call whose source object
\* is missing fails with ObjectNotFound and leaves the destination bucket
\* unchanged.
C8_CopyAsStated ==
    [][\A t \in Threads :
          CopyReturns(t) =>
              \A srcBucket \in {arg[t].srcBucket}, srcObject \in {arg[t].srcObject},
                 dstBucket \in {arg[t].bucket}, dstObject \in {arg[t].object} :
                 /\ ret'.err = nil =>
                       /\ CopyDestination(srcBucket, srcObject, dstBucket, dstObject)
                       /\ (<<srcBucket, srcObject>> # <<dstBucket, dstObject>>
                             => (ObjectsOf(srcBucket))' = ObjectsOf(srcBucket))
                 /\ object(srcBucket, srcObject).err # nil =>
                       /\ ret'.err = ObjectNotFound
                       /\ (ObjectsOf(dstBucket))' = ObjectsOf(dstBucket)]_vars

\* C8 amended: a successful CopyObject leaves the destination with the
\* source's dataHash, the destination's names and the source's bytes, and
\* leaves the source record and every entry of the source bucket's object map
\* other than the destination's unchanged; a call that fails leaves the
\* datastore and the destination bucket unchanged, and it fails with
\* ObjectNotFound when both buckets exist and the source object is missing.
C8_CopyEffect ==
    [][\A t \in Threads :
          CopyReturns(t) =>
              \A srcBucket \in {arg[t].srcBucket}, srcObject \in {arg[t].srcObject},
                 dstBucket \in {arg[t].bucket}, dstObject \in {arg[t].object} :
                 /\ ret'.op = "CopyObject"
                 /\ ret'.err = nil =>
                       /\ CopyDestination(srcBucket, srcObject, dstBucket, dstObject)
                       /\ \A name \in ObjectNames :
                             (srcBucket # dstBucket \/ name # dstObject)
                                => (Entry(srcBucket, name))' = Entry(srcBucket, name)
                 /\ ret'.err # nil =>
                       /\ ds' = ds
                       /\ (ObjectsOf(dstBucket))' = ObjectsOf(dstBucket)
                 /\ (/\ assertBucketExits(dstBucket) = nil
                     /\ assertBucketExits(srcBucket) = nil
                     /\ object(srcBucket, srcObject).err # nil)
                       => ret'.err = ObjectNotFound]_vars

\* a put and then a copy have run, the copy succeeded, and two different keys
\* of one bucket now name the same data
C8_Witness ==
    /\ ret.op = "CopyObject"
    /\ ret.err = nil
    /\ steps = 2
    /\ \E k, j \in ObjectKeys :
          /\ k # j
          /\ k[1] = j[1]
          /\ object(k[1], k[2]).err = nil
          /\ object(j[1], j[2]).err = nil
          /\ object(k[1], k[2]).val.DataHash = object(j[1], j[2]).val.DataHash

\* C26: from before its check of the destination until its return CopyObject
\* holds the destination's write lock, with a read lock on the source when the
\* buckets differ and no other lock when they are the same (it never asks for
\* a second lock on one bucket); meanwhile only the copy itself changes the
\* destination bucket; and a thread outside a call holds no lock.
C26_CopyLockDiscipline ==
    /\ [](\A t \in Threads :
             /\ pc[t] = "copy_body" =>
                   /\ wlock[arg[t].bucket] = {t}
                   /\ \A b \in BucketNames :
                         Holds(t, b) => b \in {arg[t].srcBucket, arg[t].bucket}
                   /\ arg[t].srcBucket # arg[t].bucket => t \in rlock[arg[t].srcBucket]
                   /\ arg[t].srcBucket = arg[t].bucket => t \notin rlock[arg[t].bucket]
             /\ pc[t] = "copy_lock2" => arg[t].srcBucket # arg[t].bucket
             /\ pc[t] = "idle" => \A b \in BucketNames : ~Holds(t, b))
    /\ [][\A t \in Threads :
             \A dstBucket \in {arg[t].bucket} :
                (pc[t] = "copy_body" /\ ObjectsOf(dstBucket)' # ObjectsOf(dstBucket))
                   => pc'[t] = "idle"]_vars

\* a copy inside one bucket is at its body, holding the write lock, while the
\* other thread's PutObject waits for that bucket
C26_Witness ==
    \E t, u \in Threads :
        /\ pc[t] = "copy_body"
        /\ arg[t].srcBucket = arg[t].bucket
        /\ pc[u] = "put_lock"
        /\ arg[u].bucket = arg[t].bucket

\* C27: a thread holds the bucket's read lock from the lock call inside
\* GetObjectHashes until the unlock function is called, and no lock when it is
\* in no call; a GetObjectHashes that fails has released the lock and returns
\* no unlock function, one that succeeds returns it with the lock held; and
\* GetObjectHash returns, on success and when the object is missing, with the
\* lock released.
C27_HashesLockHandOff ==
    /\ [](\A t \in Threads :
             /\ pc[t] \in {"hashes_load", "hashes_held"} => t \in rlock[arg[t].bucket]
             /\ pc[t] \in {"idle", "hashes_lock"} => \A b \in BucketNames : ~Holds(t, b))
    /\ [][\A t \in Threads :
             /\ (pc[t] = "hashes_load" /\ pc'[t] = "idle")
                   => /\ ret'.err # nil
                      /\ arg[t].op = "GetObjectHashes" => ~ret'.val.unlock
             /\ (pc[t] = "hashes_load" /\ pc'[t] = "hashes_held"
                   /\ arg[t].op = "GetObjectHashes")
                   => ret'.err = nil /\ ret'.val.unlock
             /\ (pc[t] = "hashes_held" /\ arg[t].op = "GetObjectHash")
                   => (pc'[t] \in {"hashes_held", "idle"}
                       /\ (pc'[t] = "idle" =>
                             ret'.err \in {nil, ErrLedgerObjectDoesNotExist}))]_vars

\* GetObjectHashes returned the map of a bucket and its caller has not called
\* the unlock function yet, while the other thread's PutObject waits for the
\* bucket
C27_Witness ==
    \E t, u \in Threads :
        /\ pc[t] = "hashes_held"
        /\ arg[t].op = "GetObjectHashes"
        /\ ret.op = "GetObjectHashes"
        /\ ret.val.unlock
        /\ pc[u] = "put_lock"
        /\ arg[u].bucket = arg[t].bucket

-----------------------------------------------------------------------------
\* the names of a returned list of ObjectInfos
NamesOf(list) == [i \in 1..Len(list) |-> list[i].Name]

\* the names a listing has to return: those of the bucket with the prefix and,
\* when startAfter is not empty, greater than startAfter, ascending, and the
\* max smallest of them when max is positive
Expected(objs, prefix, startAfter, max) ==
    LET names == SortStrings({name \in DOMAIN objs :
                                 /\ HasPrefix(name, prefix)
                                 /\ startAfter = EmptyString \/ Compare(name, startAfter) > 0})
    IN IF max > 0 /\ Len(names) > max THEN SubSeq(names, 1, max) ELSE names

Listed == ret.op = "GetObjectInfos" /\ ret.err = nil

\* C9: a returned listing is in strictly ascending name order, names only
\* objects of the bucket that start with the prefix, names only objects
\* strictly greater than startAfter when startAfter is not empty, and has at
\* most max entries when max is positive.
C9_ListingSound ==
    Listed =>
        LET names == NamesOf(ret.val.list) IN
        /\ \A i, j \in 1..Len(names) : i < j => Compare(names[i], names[j]) < 0
        /\ \A i \in 1..Len(names) :
              /\ names[i] \in DOMAIN ObjectsOf(ret.val.bucket)
              /\ HasPrefix(names[i], ret.val.prefix)
              /\ ret.val.startsFrom # EmptyString
                    => Compare(names[i], ret.val.startsFrom) > 0
        /\ ret.val.max > 0 => Len(names) <= ret.val.max

\* C10: a returned listing names every object of the bucket that starts with
\* the prefix and is greater than startAfter (or startAfter is empty), cut to
\* the max smallest names only when max is positive; with an empty prefix, an
\* empty startAfter and max 0 it names all objects of the bucket.
C10_ListingComplete ==
    Listed =>
        NamesOf(ret.val.list)
            = Expected(ObjectsOf(ret.val.bucket), ret.val.prefix,
                       ret.val.startsFrom, ret.val.max)

\* the names an enumeration has returned up to and including its last page
Enumerated == ret.val.seen \o NamesOf(ret.val.list)

\* C11: a ListObjectsV2 page asked for with a continuation token holds only
\* names strictly greater than the token and at most 1000 entries; no name is
\* returned twice in an enumeration; and when the enumeration ends with an
\* empty page, it has returned every object of the bucket with the prefix
\* (greater than startAfter when that is given).
C11_Pagination ==
    (ret.op = "ListObjectsV2" /\ ret.err = nil) =>
        /\ ret.val.continuationToken # EmptyString =>
              \A i \in 1..Len(ret.val.list) :
                  Compare(ret.val.list[i].Name, ret.val.continuationToken) > 0
        /\ Len(ret.val.list) <= ListObjectsV2Max
        /\ \A i, j \in 1..Len(Enumerated) : i # j => Enumerated[i] # Enumerated[j]
        /\ ret.val.list = << >> =>
              ret.val.seen = Expected(ObjectsOf(ret.val.bucket), ret.val.prefix,
                                      ret.val.startAfter, 0)

-----------------------------------------------------------------------------
(* Claims about multipart uploads *)

\* the parts of a parts map in ascending part-number order
RECURSIVE PartsInOrder(_)
PartsInOrder(parts) ==
    IF DOMAIN parts = {} THEN << >>
    ELSE LET first == CHOOSE h \in DOMAIN parts :
                          \A g \in DOMAIN parts : parts[h].Number <= parts[g].Number
         IN <<parts[first]>> \o PartsInOrder(MapDelete(parts, first))

\* completing the upload: the bytes of the recorded parts, those GetObjectParts
\* returns, concatenated in ascending part-number order
RECURSIVE Concatenated(_)
Concatenated(parts) ==
    IF parts = << >> THEN << >>
    ELSE BlockOf(Head(parts).DataHash)[2] \o Concatenated(Tail(parts))
AssembledBytes(id) == Concatenated(PartsInOrder(GetObjectPartsResult(id).val.kv))

\* the payloads put, per part number, in ascending part-number order
RECURSIVE PutsInOrder(_)
PutsInOrder(puts) ==
    IF DOMAIN puts = {} THEN << >>
    ELSE LET first == CHOOSE n \in DOMAIN puts : \A m \in DOMAIN puts : n <= m
         IN puts[first] \o PutsInOrder(MapDelete(puts, first))

\* C12: an initiated upload holds one recorded part per part number put, and
\* completing it gives the payloads put, the last one per part number,
\* concatenated in ascending part-number order, whatever the order they were
\* put in.
C12_AssemblyOrder ==
    \A id \in UploadIDs :
        uploads[id].status = "initiated" =>
            /\ GetObjectPartsResult(id).err = nil
            /\ Cardinality(DOMAIN GetObjectPartsResult(id).val.kv)
                  = Cardinality(DOMAIN uploads[id].puts)
            /\ AssembledBytes(id) = PutsInOrder(uploads[id].puts)

\* a PutObjectPart call is made in this step (it is the only call counted
\* that starts and returns in one step and leaves its name in ret)
PutObjectPartReturns == steps' # steps /\ pc' = pc /\ ret'.op = "PutObjectPart"

C14_UnknownIdsFail ==
    \A id \in UploadIDs :
        uploads[id].status \in {"none", "aborted"} =>
            /\ MultipartIDExistsResult(id) = ErrInvalidUploadID
            /\ GetObjectPartsResult(id).err = ErrInvalidUploadID
            /\ \A bucket \in DOMAIN ds :
                  AbortMultipartUploadResult(bucket, id) = ErrInvalidUploadID

\* C22: no two threads are at the multipart-upload map (or a parts map) at
\* once when one of them writes: a thread that is at the map holds a lock that
\* keeps every writer of the map out.
C22_MapAccessExclusive ==
    \A t \in Threads, u \in Threads :
        (t # u /\ InMap(t) /\ InMap(u)) => ~WritesMap(arg[t].op)

\* C23: once NewMultipartUpload has returned it holds no lock (every lock is
\* held by a thread that is inside a call), and a PutObject that waits for the
\* bucket's write lock eventually gets it and goes on.
C23_NewUploadReleasesLock ==
    /\ [](\A b \in BucketNames :
             \A holder \in wlock[b] \cup rlock[b] :
                holder \in Threads /\ pc[holder] # "idle")
    /\ \A t \in Threads : (pc[t] = "put_lock") ~> (pc[t] # "put_lock")

\* C24: an initiated upload exists for MultipartIDExists until it is aborted,
\* and the first PutObjectPart on it, made on its bucket, returns nil, after
\* which GetObjectParts returns a map holding a part with the number and the
\* data hash of the call.
C24_FreshUploadTakesParts ==
    /\ [](\A id \in UploadIDs :
             uploads[id].status = "initiated" => MultipartIDExistsResult(id) = nil)
    /\ [][\A id \in UploadIDs :
             (/\ uploads[id].status = "initiated"
              /\ uploads[id].puts = EmptyMap
              /\ PutObjectPartReturns
              /\ ret'.val.id = id
              /\ ret'.val.bucket = uploads[id].bucket)
                => /\ ret'.err = nil
                   /\ GetObjectPartsResult(id)'.err = nil
                   /\ \A n \in DOMAIN uploads'[id].puts :
                         \E k \in DOMAIN GetObjectPartsResult(id)'.val.kv :
                            GetObjectPartsResult(id)'.val.kv[k]
                              = ObjectPartInfoOf(n, Cid(RawBlock(uploads'[id].puts[n])))]_vars

\* C25: the parts recorded for an initiated upload are one per part number
\* put, each with the data hash of the last put of its number: equal bytes
\* under two numbers are two parts, and a number put again is replaced.
C25_PartsKeyedByNumber ==
    \A id \in UploadIDs :
        uploads[id].status = "initiated" =>
            LET parts == GetObjectPartsResult(id).val.kv
                puts == uploads[id].puts
            IN /\ \A n \in DOMAIN puts :
                     Cardinality({k \in DOMAIN parts : parts[k].Number = n}) = 1
               /\ \A k \in DOMAIN parts :
                     /\ parts[k].Number \in DOMAIN puts
                     /\ parts[k].DataHash = Cid(RawBlock(puts[parts[k].Number]))

-----------------------------------------------------------------------------
(* Claims about test mode, bucket deletion, enumeration, ranges, batches *)

\* the object records a bucket's current record names
RecordsOf(bucket) ==
    {BlockOf(ObjectsOf(bucket)[name])[2] : name \in DOMAIN ObjectsOf(bucket)}

\* C15: in test mode no record holds a value taken from the clock (the clock
\* never reads 0): every object record has ModTime 0 and every bucket record
\* Created 0, so the records, and with them the bucket CIDs, are the same
\* whenever the same calls are run.
C15_TestModeReproducible ==
    isTest =>
        \A bucket \in DOMAIN ds :
            /\ getBucketLoaded(bucket).val.Created = 0
            /\ \A record \in RecordsOf(bucket) : record.ObjectInfo.ModTime = 0

\* the error the engine's error table has for deleting a bucket with objects
BucketNotEmpty == "BucketNotEmpty"

\* C16: DeleteBucket on a name that does not exist fails with the
\* bucket-does-not-exist error and leaves the ledger unchanged; on a bucket
\* that holds an object it fails with BucketNotEmpty and leaves the ledger
\* unchanged; on an empty bucket it succeeds and removes the bucket.
C16_DeleteBucketNotEmpty ==
    [][call'.op = "DeleteBucket" =>
          \A name \in {call'.bucket} :
              IF ~BucketExists(name)
              THEN call'.ret = ErrLedgerBucketDoesNotExist /\ ledgerBytes' = ledgerBytes
              ELSE IF DOMAIN LedgerGetObjectHashes(name)[1] # {}
              THEN call'.ret = BucketNotEmpty /\ ledgerBytes' = ledgerBytes
              ELSE call'.ret = nil /\ (~BucketExists(name))']_vars

\* C17: every list GetBucketNames can return is in ascending lexicographic
\* order and holds each existing bucket name exactly once and no other name.
C17_BucketNamesSorted ==
    \A s \in LedgerGetBucketNames :
        /\ \A i, j \in 1..Len(s) : i < j => Compare(s[i], s[j]) < 0
        /\ \A name \in LedgerBucketNames :
              Occurrences(s, name) = IF name \in live THEN 1 ELSE 0
        /\ \A i \in 1..Len(s) : s[i] \in live

\* C18: a range read of an existing object with startOffset >= 0 and
\* length >= 0 fails with InvalidRange and writes nothing when startOffset +
\* length exceeds the object's size, and otherwise writes exactly the bytes at
\* the positions startOffset .. startOffset + length - 1.
C18_RangeReads ==
    (/\ ret.op = "GetObject"
     /\ ObjectData(ret.val.bucket, ret.val.name).err = nil
     /\ 0 <= ret.val.startOffset
     /\ 0 <= ret.val.length)
        => LET objData == ObjectData(ret.val.bucket, ret.val.name).val IN
           IF ret.val.startOffset + ret.val.length > Len(objData)
           THEN ret.err = InvalidRange /\ ret.val.bytes = << >>
           ELSE /\ ret.err = nil
                /\ ret.val.bytes = [i \in 1..ret.val.length |->
                                       objData[ret.val.startOffset + i]]

\* C33: GetObject is total over its range arguments: for every int64
\* startOffset and length and every stored object it returns InvalidRange and
\* writes nothing, or it returns no error and writes objData[start:end] with
\* 0 <= start <= end <= the object's size; it never slices outside the data.
C33_GetObjectTotal ==
    (ret.op = "GetObject" /\ ObjectData(ret.val.bucket, ret.val.name).err = nil)
        => LET objData == ObjectData(ret.val.bucket, ret.val.name).val
               start == ret.val.startOffset
               end == ret.val.startOffset + ret.val.length
           IN \/ ret.err = InvalidRange /\ ret.val.bytes = << >>
              \/ /\ ret.err = nil
                 /\ 0 <= start /\ start <= end /\ end <= Len(objData)
                 /\ ret.val.bytes = [i \in 1..(end - start) |-> objData[start + i]]

\* C19: DeleteObjects(bucket, names) on an existing bucket returns a nil
\* overall error, reports ObjectNotFound for exactly the names that were not
\* present and nothing for the names it removed, leaves the objects it was not
\* given (and the other buckets) as they were, and afterwards none of the
\* names is retrievable.
FirstOccurrence(names, i) == \A j \in 1..(i - 1) : names[j] # names[i]
C19_BatchDelete ==
    [][(call'.op = "DeleteObjects" /\ bucketExists(getLedger, call'.bucket)) =>
        \A bucket \in {call'.bucket}, names \in {call'.objects},
           errs \in {call'.errs}, after \in {getLedger'} :
            /\ call'.ret = nil
            /\ Len(errs) = Len(names)
            /\ \A i \in 1..Len(names) :
                  /\ errs[i] \in {nil, ObjectNotFound}
                  /\ FirstOccurrence(names, i) =>
                        (errs[i] = ObjectNotFound
                            <=> objectExists(getLedger, bucket, names[i]) # nil)
                  /\ objectExists(after, bucket, names[i])
                        = ErrLedgerObjectDoesNotExist
            /\ \A b \in LedgerBucketNames, o \in LedgerObjectNames :
                  (b # bucket \/ \A i \in 1..Len(names) : names[i] # o)
                    => objectExists(after, b, o) = objectExists(getLedger, b, o)]_vars

\* C20: crdtDAGSyncer.Get(c) returns a node only if the bytes the node server
\* answered hash to exactly c; when the answer's CID differs from c, or the
\* transport fails, or the bytes do not decode, Get returns an error and no
\* node and HasBlock(c) keeps the value it had.
C20_BlockIntegrity ==
    [][dagCall'.op = "Get" =>
        \A c \in {dagCall'.c}, resp \in {dagCall'.resp} :
            /\ ~dagCall'.node.isNil =>
                  (resp.err = nil /\ Sum(resp.RawData) = c.mh
                     /\ dagCall'.node.RawData = resp.RawData)
            /\ (\/ resp.err # nil
                \/ NewBlock(resp.RawData).cid # c
                \/ resp.RawData \notin ProtoNodes)
                  => /\ dagCall'.err # nil
                     /\ dagCall'.node.isNil
                     /\ (c \in seen') = (c \in seen)]_vars

\* Get(c) was answered with bytes that do not hash to c, failed, and c is not seen
C20_Witness ==
    /\ dagCall.op = "Get"
    /\ dagCall.resp.err = nil
    /\ Sum(dagCall.resp.RawData) # dagCall.c.mh
    /\ dagCall.resp.RawData \in ProtoNodes
    /\ dagCall.err = ErrUnexpectedData
    /\ dagCall.node.isNil
    /\ ~HasBlock(dagCall.c)

\* C21: a GetObjectInfos call that runs beside PutObject, CopyObject and
\* DeleteObject calls on the same bucket returns the listing of the bucket as
\* it was when the call took its read lock: no name added later, every
\* selected name of that moment, and no failure for an object removed later.
C21_ListingIsSnapshot ==
    [][\A t \in Threads :
          (pc[t] \in {"list_load", "list_object"} /\ pc'[t] = "idle") =>
             \A a \in {arg[t]} :
                IF a.snap.err # nil
                THEN ret'.err = a.snap.err /\ ret'.val.list = << >>
                ELSE /\ ret'.err = nil
                     /\ ret'.val.list
                          = ListingOf(a.snap.val, a.prefix, a.startsFrom, a.max)]_vars

\* a listing holds selected names while a PutObject of the other thread waits
\* for the same bucket
C21_Witness ==
    \E t \in Threads, u \in Threads :
        /\ pc[t] = "list_object"
        /\ arg[t].names # << >>
        /\ pc[u] = "put_lock"
        /\ arg[u].bucket = arg[t].bucket
        /\ arg[u].object \notin DOMAIN arg[t].snap.val.Objects

(* xObjects.PutObject over LedgerStore (gateway-s3x-object.go 149-201) *)

\* the step of PutObject that fails: none, or one of its calls
PutObjectSteps ==
    {"none", "ReadAll", "objectToIPFS", "addObjectToBucketAndIPFS",
     "UpdateBucketHash", "AddObjectToBucket"}

\* the error a failing step returns: the reader's, the node's, or the
\* datastore's behind getLedger and putLedger
StepError(failed) ==
    IF failed = "ReadAll" THEN ErrReadAll
    ELSE IF failed \in {"objectToIPFS", "addObjectToBucketAndIPFS"} THEN ErrDAGUnavailable
    ELSE ErrDatastore

\* the object is stored under objectHash and the bucket with it under
\* bucketHash; then the ledger takes the bucket hash and, in a second
\* transaction, the object entry.  failed names the call that returns an error.
LedgerPutObject(bucketName, objectName, objectHash, bucketHash, failed) ==
    /\ UNCHANGED <<evars, mvars, svars, cvars>>
    /\ UNCHANGED live
    /\ LET l == getLedger
           hashed == Marshal(UpdateBucketHashLedger(l, bucketName, bucketHash))
           added == Marshal(AddObjectToBucketLedger(Unmarshal(hashed), bucketName,
                                                   objectName, objectHash))
       IN  IF ~bucketExists(l, bucketName)
           THEN /\ call' = Call("PutObject", bucketName, objectName, objectHash,
                                toMinioErr(ErrLedgerBucketDoesNotExist))
                /\ UNCHANGED ledgerBytes
           ELSE IF failed \in {"ReadAll", "objectToIPFS", "addObjectToBucketAndIPFS",
                               "UpdateBucketHash"}
           THEN /\ call' = Call("PutObject", bucketName, objectName, objectHash,
                                toMinioErr(StepError(failed)))
                /\ UNCHANGED ledgerBytes
           ELSE IF failed = "AddObjectToBucket"
           THEN /\ ledgerBytes' = hashed
                /\ call' = Call("PutObject", bucketName, objectName, objectHash,
                                toMinioErr(StepError(failed)))
           ELSE /\ ledgerBytes' = added
                /\ call' = Call("PutObject", bucketName, objectName, objectHash, nil)

\* C28: a PutObject that returns an error commits nothing: the bucket pointer
\* and the object map of every bucket, as GetBucketHash and GetObjectHashes
\* answer them, are after the call what they were before it.
C28_FailedPutCommitsNothing ==
    [][(call'.op = "PutObject" /\ call'.ret # nil) =>
        \A b \in LedgerBucketNames :
            /\ GetBucketHash(b)' = GetBucketHash(b)
            /\ LedgerGetObjectHashes(b)' = LedgerGetObjectHashes(b)]_vars


\* the CIDs a call with the result d marks, and the ones it removes the mark of:
\* a Get or Add that succeeded marks its CID, AddMany the nodes before the
\* one it returned at; a Remove that succeeded and RemoveMany likewise
Completed(d, slice) ==
    {slice[j] : j \in 1..(IF d.failedAt = 0 THEN Len(slice) ELSE d.failedAt - 1)}
Marks(d) ==
    IF d.op \in {"Get", "Add"} /\ d.err = nil THEN {d.c}
    ELSE IF d.op = "AddMany" THEN {NodeCid(n) : n \in Completed(d, d.ns)}
    ELSE {}
Unmarks(d) ==
    IF d.op = "Remove" /\ d.err = nil THEN {d.c}
    ELSE IF d.op = "RemoveMany" THEN Completed(d, d.cs)
    ELSE {}

\* C29: no CID is seen at first, and every call of the syncer leaves seen
\* exactly the CIDs that were seen and that it did not remove, and the ones it
\* marked: HasBlock(c) holds exactly when a Get(c) or an Add of a node with the
\* CID c succeeded and no Remove(c) succeeded since.  A Get or Add that
\* returns an error leaves HasBlock of its CID as it was; an AddMany that
\* fails returns at its first failing node, having marked the nodes before it
\* and neither that node nor a later one; a Remove never fails because its CID
\* is not seen (the only error it returns is the datastore's own), and then
\* it changes nothing.
C29_SeenSet ==
    /\ seen = {}
    /\ [][\A d \in {dagCall'} :
            /\ seen' = (seen \ Unmarks(d)) \cup Marks(d)
            /\ (d.op \in {"Get", "Add"} /\ d.err # nil)
                  => (HasBlock(d.c)' <=> HasBlock(d.c))
            /\ d.op = "AddMany" =>
                  /\ d.err = nil <=> d.failedAt = 0
                  /\ d.failedAt # 0 =>
                        seen' = seen \cup
                                  {NodeCid(d.ns[j]) : j \in 1..(d.failedAt - 1)}
            /\ d.op = "Remove" =>
                  /\ d.err \in {nil, ErrDatastore}
                  /\ d.err = nil => ~HasBlock(d.c)'
                  /\ ~HasBlock(d.c) => seen' = seen]_vars

\* AddMany of two nodes failed at the second: the first is seen, the second not
C29_Witness ==
    /\ dagCall.op = "AddMany"
    /\ Len(dagCall.ns) = 2
    /\ dagCall.failedAt = 2
    /\ dagCall.err # nil
    /\ HasBlock(NodeCid(dagCall.ns[1]))
    /\ ~HasBlock(NodeCid(dagCall.ns[2]))


\* what the goroutine has put on the channel so far, read or not
Delivered == received \o out.buf

\* C30: what GetMany(cs) has delivered is at every moment the outcomes of
\* Get(cs[1]), Get(cs[2]), ... in this order, errors included, and Len(cs) of
\* them once the channel is closed; the goroutine is never at a send that has
\* to wait, and it closes the channel whether or not its caller reads.
C30_GetManyDelivers ==
    /\ [](getMany.pc # "none" =>
            /\ Len(Delivered) <= Len(getMany.cs)
            /\ Len(Delivered) = getMany.i - 1
            /\ \A i \in 1..Len(Delivered) :
                  /\ getMany.gets[i].c = getMany.cs[i]
                  /\ Delivered[i]
                        = NodeOption(getMany.gets[i].node, getMany.gets[i].err)
                  /\ Delivered[i].Err = nil
                        => Sum(Delivered[i].Node.RawData) = getMany.cs[i].mh
            /\ out.closed <=> getMany.pc = "done"
            /\ out.closed => Len(Delivered) = Len(getMany.cs)
            /\ getMany.pc = "send" => Len(out.buf) < out.cap)
    /\ (getMany.pc \in {"get", "send"}) ~> out.closed

\* the channel is closed with two results on it, none read: the Get of the
\* first CID failed and the Get of the second returned a node
C30_Witness ==
    /\ out.closed
    /\ received = << >>
    /\ Len(out.buf) = 2
    /\ out.buf[1].Err # nil
    /\ out.buf[2].Err = nil
    /\ ~out.buf[2].Node.isNil


\* the setter calls of the threads in order, one after the other, on the
\* stored ledger bytes: the bytes stored in the end, and whether every call
\* returns what its thread got
RECURSIVE RunInOrder(_, _, _)
RunInOrder(bytes, order, i) ==
    IF i > Len(order) THEN [bytes |-> bytes, ok |-> TRUE]
    ELSE LET c == setter[order[i]]
             r == SetterResult(Unmarshal(bytes), c)
             rest == RunInOrder(IF r.put THEN Marshal(r.ledger) ELSE bytes, order, i + 1)
         IN [bytes |-> rest.bytes, ok |-> rest.ok /\ c.ret = r.err]

Returned2(op) == \A t \in Threads : setter[t].pc = "done" /\ setter[t].op = op

\* C31: at most one setter holds the lock, and from its getLedger to its
\* return it holds it; the copy a setter is about to change and store is the
\* stored ledger (no update is lost); once the calls made have returned, the
\* stored ledger and the errors returned are those of the same calls run one
\* after the other in some order.  Of two NewBucket calls for one new name
\* exactly one succeeds and the other returns ErrLedgerBucketExists; two
\* AddObjectToBucket calls for different objects of one bucket leave both.
C31_SettersAtomic ==
    /\ Cardinality(mu) <= 1
    /\ \A t \in Threads :
          /\ setter[t].pc \in {"get", "put", "unlock"} => t \in mu
          /\ setter[t].pc = "put" => setter[t].ledger = getLedger
    /\ (\A t \in Threads : setter[t].pc \in {"idle", "done"}) =>
          \E order \in Orders({t \in Threads : setter[t].pc = "done"}) :
              LET run == RunInOrder(ledger0, order, 1)
              IN run.ok /\ run.bytes = ledgerBytes
    /\ (/\ Returned2("NewBucket")
        /\ setter[1].bucket = setter[2].bucket
        /\ ~bucketExists(Unmarshal(ledger0), setter[1].bucket))
          => {setter[1].ret, setter[2].ret} = {nil, ErrLedgerBucketExists}
    /\ (/\ Returned2("AddObjectToBucket")
        /\ setter[1].bucket = setter[2].bucket
        /\ setter[1].object # setter[2].object
        /\ bucketExists(Unmarshal(ledger0), setter[1].bucket))
          => \A t \in Threads :
                /\ setter[t].ret = nil
                /\ LedgerGetObjectHash(setter[t].bucket, setter[t].object)
                      = <<setter[t].hash, nil>>

\* two AddObjectToBucket calls for different objects of one bucket, the second
\* made while the first was under way, have returned and both objects are stored
C31_Witness ==
    /\ Returned2("AddObjectToBucket")
    /\ \E t \in Threads : setter[t].concurrent
    /\ setter[1].bucket = setter[2].bucket
    /\ setter[1].object # setter[2].object
    /\ \A t \in Threads :
          LedgerGetObjectHash(setter[t].bucket, setter[t].object) = <<setter[t].hash, nil>>


\* the buckets of the ledger after are those of the ledger before, and each
\* but the one named is the entry it was
OthersKept(before, after, name) ==
    /\ DOMAIN after.Buckets.kv = DOMAIN before.Buckets.kv
    /\ \A b \in DOMAIN before.Buckets.kv :
          b # name => after.Buckets.kv[b] = before.Buckets.kv[b]

\* C32: a setter changes only its target.  UpdateBucketHash(name, h) that
\* succeeds leaves the bucket name with the hash h, its name and its object
\* entries, and every other bucket as it was; AddObjectToBucket(b, o, h) that
\* succeeds leaves b with its name, its hash and its entries but o, which is
\* now the entry (o, h), and every other bucket as it was; a setter that
\* returns an error returns one of the three ledger errors and leaves the
\* stored bytes as they were.
C32_SettersFrame ==
    [][\A c \in {call'}, before \in {getLedger}, after \in {getLedger'} :
        /\ c.ret # nil =>
              /\ ledgerBytes' = ledgerBytes
              /\ c.ret \in {ErrLedgerBucketExists, ErrLedgerBucketDoesNotExist,
                             ErrLedgerObjectDoesNotExist}
        /\ (c.op = "UpdateBucketHash" /\ c.ret = nil) =>
              /\ OthersKept(before, after, c.bucket)
              /\ after.Buckets.kv[c.bucket]
                    = [before.Buckets.kv[c.bucket] EXCEPT !.IpfsHash = c.hash]
        /\ (c.op = "AddObjectToBucket" /\ c.ret = nil) =>
              /\ OthersKept(before, after, c.bucket)
              /\ after.Buckets.kv[c.bucket].Name = before.Buckets.kv[c.bucket].Name
              /\ after.Buckets.kv[c.bucket].IpfsHash
                    = before.Buckets.kv[c.bucket].IpfsHash
              /\ after.Buckets.kv[c.bucket].Objects.kv
                    = MapPut(before.Buckets.kv[c.bucket].Objects.kv, c.object,
                             [Name |-> c.object, IpfsHash |-> c.hash])]_vars

\* UpdateBucketHash succeeded on a bucket that holds an object, beside
\* another bucket
C32_Witness ==
    /\ call.op = "UpdateBucketHash"
    /\ call.ret = nil
    /\ GetBucketHash(call.bucket) = <<call.hash, nil>>
    /\ DOMAIN LedgerGetObjectHashes(call.bucket)[1] # {}
    /\ \E b \in BucketNames : b # call.bucket /\ BucketExists(b)


-----------------------------------------------------------------------------
(* specifications *)

EngineInit ==
    /\ dag = {}
    /\ \E made \in {{<<1>>}, {<<1>>, <<2>>}} :
          /\ ds = [b \in made |-> Cid(BucketBlock(BucketOf(b, 0, EmptyMap)))]
          /\ cache = [b \in made |-> BucketOf(b, 0, EmptyMap)]
    /\ wlock = [b \in BucketNames |-> {}]
    /\ rlock = [b \in BucketNames |-> {}]
    /\ pc = [t \in Threads |-> "idle"]
    /\ arg = [t \in Threads |-> NoArg]
    /\ loaded = [t \in Threads |-> ZeroBucket]
    /\ ret = Returned("", nil, << >>)
    /\ written = [p \in BucketNames \X ObjectNames |-> NotWritten]
    /\ steps = 0

Init == LedgerInit /\ EngineInit /\ MultipartInit /\ SyncerInit /\ isTest = FALSE

Next ==
    \/ \E t \in Threads : PutObjectCall(t)
    \/ \E t \in Threads : PutObjectLock(t)
    \/ \E t \in Threads : PutObjectCommit(t)
    \/ \E t \in Threads : GetObject(t)
    \/ \E t \in Threads : DeleteObject(t)
    \/ \E t \in Threads : CopyObjectCall(t)
    \/ \E t \in Threads : CopyObjectLock1(t)
    \/ \E t \in Threads : CopyObjectLock2(t)
    \/ \E t \in Threads : CopyObjectBody(t)

Spec == Init /\ [][Next]_vars

\* the LedgerStore alone, beside a gateway at rest
LedgerStoreInit == Init /\ DOMAIN ds = {<<1>>}

SpecLedger == LedgerStoreInit /\ [][LedgerNext]_vars

\* both buckets exist and each holds the object <<1>>, put with the payload <<7>>
StoredObject(bucket) ==
    PutObjectRecord(bucket, <<1>>, <<7>>, Cid(RawBlock(<<7>>)), 1)
StoredBucket(bucket) ==
    putObjectBucket(BucketOf(bucket, 0, EmptyMap), <<1>>, StoredObject(bucket))
CopyInit ==
    /\ LedgerInit
    /\ MultipartInit
    /\ SyncerInit
    /\ isTest = FALSE
    /\ dag = {RawBlock(<<7>>)}
    /\ ds = [b \in BucketNames |-> Cid(BucketBlock(StoredBucket(b)))]
    /\ cache = [b \in BucketNames |-> StoredBucket(b)]
    /\ wlock = [b \in BucketNames |-> {}]
    /\ rlock = [b \in BucketNames |-> {}]
    /\ pc = [t \in Threads |-> "idle"]
    /\ arg = [t \in Threads |-> NoArg]
    /\ loaded = [t \in Threads |-> ZeroBucket]
    /\ ret = Returned("", nil, << >>)
    /\ written = [k \in BucketNames \X ObjectNames |->
                     IF k[2] = <<1>> THEN Written(<<7>>, NotWritten) ELSE NotWritten]
    /\ steps = 0

CopyNext ==
    \/ \E t \in Threads : CopyObjectCall(t)
    \/ \E t \in Threads : CopyObjectLock1(t)
    \/ \E t \in Threads : CopyObjectLock2(t)
    \/ \E t \in Threads : CopyObjectBody(t)

\* a step a started CopyObject takes on its own
CopyProgress(t) ==
    \/ CopyObjectLock1(t)
    \/ CopyObjectLock2(t)
    \/ CopyObjectBody(t)

\* concurrent CopyObject calls only; a started call is scheduled: it takes its
\* next step if that step stays possible (a lock that stays free is granted)
SpecCopy ==
    CopyInit /\ [][CopyNext]_vars /\ \A t \in Threads : WF_vars(CopyProgress(t))

\* one bucket holding any of the listed names, each put with the payload <<7>>
ListedBucket(bucket, names) ==
    BucketOf(bucket, 0,
             [name \in names |->
                 Cid(ObjectBlock(PutObjectRecord(bucket, name, <<7>>,
                                                 Cid(RawBlock(<<7>>)), 1)))])
ListInit ==
    /\ LedgerInit
    /\ MultipartInit
    /\ SyncerInit
    /\ isTest = FALSE
    /\ \E names \in SUBSET ListNames :
          /\ dag = IF names = {} THEN {} ELSE {RawBlock(<<7>>)}
          /\ ds = [b \in {<<1>>} |-> Cid(BucketBlock(ListedBucket(b, names)))]
          /\ cache = [b \in {<<1>>} |-> ListedBucket(b, names)]
    /\ wlock = [b \in BucketNames |-> {}]
    /\ rlock = [b \in BucketNames |-> {}]
    /\ pc = [t \in Threads |-> "idle"]
    /\ arg = [t \in Threads |-> NoArg]
    /\ loaded = [t \in Threads |-> ZeroBucket]
    /\ ret = Returned("", nil, << >>)
    /\ written = [k \in BucketNames \X ObjectNames |-> NotWritten]
    /\ steps = 0

ListNext ==
    \/ \E t \in Threads : GetObjectInfos(t)
    \/ \E t \in Threads : ListObjectsV2(t)

\* listings of a bucket of any content
SpecList == ListInit /\ [][ListNext]_vars

MultipartNext ==
    \/ \E t \in Threads : NewMultipartUploadCall(t)
    \/ \E t \in Threads : NewMultipartUploadReturn(t)
    \/ \E t \in Threads : PutObjectPart(t)
    \/ \E t \in Threads : AbortMultipartUpload(t)
    \/ \E t \in Threads : GetObjectParts(t)
    \/ \E t \in Threads : MultipartIDExists(t)

\* the multipart calls of the ledgerStore
SpecMultipart == Init /\ [][MultipartNext]_vars

\* the gateway in test mode: puts, copies and deletes
TestInit == LedgerInit /\ EngineInit /\ MultipartInit /\ SyncerInit /\ isTest = TRUE

TestNext ==
    \/ \E t \in Threads : PutObjectCall(t)
    \/ \E t \in Threads : PutObjectLock(t)
    \/ \E t \in Threads : PutObjectCommit(t)
    \/ \E t \in Threads : DeleteObject(t)
    \/ \E t \in Threads : CopyObjectCall(t)
    \/ \E t \in Threads : CopyObjectLock1(t)
    \/ \E t \in Threads : CopyObjectLock2(t)
    \/ \E t \in Threads : CopyObjectBody(t)

SpecTest == TestInit /\ [][TestNext]_vars

\* bucket <<1>> holds the object <<1>> with any of the payloads
RangeObject(data) ==
    putObjectBucket(BucketOf(<<1>>, 0, EmptyMap), <<1>>,
                    PutObjectRecord(<<1>>, <<1>>, data, Cid(RawBlock(data)), 1))
RangeInit ==
    /\ LedgerInit
    /\ MultipartInit
    /\ SyncerInit
    /\ isTest = FALSE
    /\ \E data \in Payloads :
          /\ dag = {RawBlock(data)}
          /\ ds = [b \in {<<1>>} |-> Cid(BucketBlock(RangeObject(data)))]
          /\ cache = [b \in {<<1>>} |-> RangeObject(data)]
          /\ written = [k \in BucketNames \X ObjectNames |->
                           IF k = <<<<1>>, <<1>>>> THEN Written(data, NotWritten)
                           ELSE NotWritten]
    /\ wlock = [b \in BucketNames |-> {}]
    /\ rlock = [b \in BucketNames |-> {}]
    /\ pc = [t \in Threads |-> "idle"]
    /\ arg = [t \in Threads |-> NoArg]
    /\ loaded = [t \in Threads |-> ZeroBucket]
    /\ ret = Returned("", nil, << >>)
    /\ steps = 0

RangeNext == \E t \in Threads : GetObjectRanged(t)

\* range reads of a stored object
SpecRange == RangeInit /\ [][RangeNext]_vars

\* batch deletes over a ledger filled by NewBucket and AddObjectToBucket
BatchNext ==
    \/ \E name \in LedgerBucketNames : NewBucket(name, "h1")
    \/ \E b \in LedgerBucketNames, o \in LedgerObjectNames :
          AddObjectToBucket(b, o, "h1")
    \/ \E b \in LedgerBucketNames, objects \in Batches : DeleteObjects(b, objects)

SpecBatch == LedgerStoreInit /\ [][BatchNext]_vars

\* the calls of crdtDAGSyncer
SyncerNext ==
    \/ \E c \in SyncerCids : Get(c)
    \/ \E data \in ProtoNodes : Add(data)
    \/ \E c \in SyncerCids : Remove(c)
    \/ \E ns \in NodeSlices : AddMany(ns)
    \/ \E cs \in CidSlices : RemoveMany(cs)

SpecSyncer == Init /\ [][SyncerNext]_vars

\* listings beside puts, copies and deletes; both buckets hold the object <<1>>,
\* and the listings start from a name that selects every object name
SnapNext ==
    \/ \E t \in Threads, prefix \in Prefixes : GetObjectInfosCall(t, prefix, <<3>>)
    \/ \E t \in Threads : GetObjectInfosLoad(t)
    \/ \E t \in Threads : GetObjectInfosObject(t)
    \/ \E t \in Threads : PutObjectCall(t)
    \/ \E t \in Threads : PutObjectLock(t)
    \/ \E t \in Threads : PutObjectCommit(t)
    \/ \E t \in Threads : DeleteObject(t)
    \/ \E t \in Threads : CopyObjectCall(t)
    \/ \E t \in Threads : CopyObjectLock1(t)
    \/ \E t \in Threads : CopyObjectLock2(t)
    \/ \E t \in Threads : CopyObjectBody(t)

SpecSnap == CopyInit /\ [][SnapNext]_vars

RaceNext ==
    \/ \E t \in Threads : MultipartEnter(t)
    \/ \E t \in Threads : MultipartMapAccess(t)
    \/ \E t \in Threads : NewMultipartUploadReturn(t)

\* the multipart calls of two request threads
SpecRace == Init /\ [][RaceNext]_vars

UploadNext ==
    \/ \E t \in Threads : NewMultipartUploadCall(t)
    \/ \E t \in Threads : NewMultipartUploadReturn(t)
    \/ \E t \in Threads : PutObjectCall(t)
    \/ \E t \in Threads : PutObjectLock(t)
    \/ \E t \in Threads : PutObjectCommit(t)

\* a step a started call takes on its own
UploadProgress(t) ==
    \/ NewMultipartUploadReturn(t)
    \/ PutObjectLock(t)
    \/ PutObjectCommit(t)

\* uploads are initiated beside puts; a started call is scheduled
SpecUpload ==
    Init /\ [][UploadNext]_vars /\ \A t \in Threads : WF_vars(UploadProgress(t))

HashesNext ==
    \/ \E t \in Threads : GetObjectHashesCall(t)
    \/ \E t \in Threads : GetObjectHashesLock(t)
    \/ \E t \in Threads : GetObjectHashesLoad(t)
    \/ \E t \in Threads : GetObjectHashesUnlock(t)
    \/ \E t \in Threads : PutObjectCall(t)
    \/ \E t \in Threads : PutObjectLock(t)
    \/ \E t \in Threads : PutObjectCommit(t)

\* GetObjectHashes and GetObjectHash beside puts
SpecHashes == Init /\ [][HashesNext]_vars

\* puts over LedgerStore, any step of which may fail
LedgerPutNext ==
    \/ \E name \in LedgerBucketNames, hash \in Hashes : NewBucket(name, hash)
    \/ \E b \in LedgerBucketNames, o \in LedgerObjectNames, h, bh \in Hashes,
          failed \in PutObjectSteps : LedgerPutObject(b, o, h, bh, failed)
    \/ \E name \in LedgerBucketNames : DeleteBucket(name)

SpecLedgerPut == LedgerStoreInit /\ [][LedgerPutNext]_vars

GetManyNext ==
    \/ \E cs \in CidSlices \cup {<< >>} : GetManyCall(cs)
    \/ GetManyGet
    \/ GetManySend
    \/ GetManyClose
    \/ GetManyReceive

\* GetMany and its caller; the goroutine is scheduled, the caller need not read
SpecGetMany ==
    Init /\ [][GetManyNext]_vars
         /\ WF_vars(GetManyGet \/ GetManySend \/ GetManyClose)

\* an opened store and the other parts as they start
SetterInit ==
    /\ \E l \in StoredLedgers :
          /\ ledgerBytes = Marshal(l)
          /\ live = {b \in LedgerBucketNames : bucketExists(l, b)}
    /\ call = Call("newLedgerStore", EmptyString, EmptyString, "", nil)
    /\ MutexInit
    /\ EngineInit
    /\ MultipartInit
    /\ SyncerInit
    /\ isTest = FALSE

SetterNext ==
    \/ \E t \in Threads : SetterCall(t)
    \/ \E t \in Threads : SetterLock(t)
    \/ \E t \in Threads : SetterGet(t)
    \/ \E t \in Threads : SetterPut(t)
    \/ \E t \in Threads : SetterUnlock(t)

\* each thread makes one setter call on the LedgerStore
SpecSetters == SetterInit /\ [][SetterNext]_vars

\* the setters of the LedgerStore on two bucket names
FrameNext ==
    \/ \E name \in BucketNames, hash \in Hashes : NewBucket(name, hash)
    \/ \E name \in BucketNames, hash \in Hashes : UpdateBucketHash(name, hash)
    \/ \E b \in BucketNames, o \in LedgerObjectNames : RemoveObject(b, o)
    \/ \E b \in BucketNames, o \in LedgerObjectNames, h \in Hashes :
          AddObjectToBucket(b, o, h)
    \/ \E name \in BucketNames : DeleteBucket(name)

SpecFrame == LedgerStoreInit /\ [][FrameNext]_vars

====
